---------------------------- MODULE Spec2Model ----------------------------
(***************************************************************************)
(* The browser debug-protocol multiplexer of MCPs/simple_webdebug:         *)
(* server.py (the rich variant: one persistent connection, a listener      *)
(* task, session-scoped commands, event buckets) and simple_debug.py (the  *)
(* simple variant: one connection per operation, bounded polling).         *)
(*                                                                         *)
(* JSON objects (Python dicts) are functions from key strings to values;   *)
(* a method name is the sequence of its tokens, where a token is either    *)
(* the separator "." or a maximal dot-free chunk of the name.              *)
(***************************************************************************)
EXTENDS Integers, Sequences, FiniteSets, TLC

VARIABLES
    lifespan,         \* position of app_lifespan
    state,            \* app_lifespan's state dict: cdp_ws, cdp_listener_task
    transport,        \* the websocket: "none", "open", "closed"
    listener,         \* the cdp_listener task: "none", "running", "finished", "failed", "cancelled"
    _cdp_message_id,  \* server.py global counter
    _cdp_responses,   \* server.py global dict: id -> response frame
    _cdp_events,      \* server.py global dict: category -> list of event frames
    ops,              \* the operations in flight, one record per task
    wire,             \* every command envelope written to the websocket, in order
    inbound,          \* number of inbound messages the listener has consumed
    last_message,     \* the inbound message consumed last
    delivered,        \* every id-bearing frame the listener has stored
    completed,        \* every command outcome handed to a caller
    arrived,          \* every event frame the listener has recorded, in arrival order
    simple_message_id,  \* simple_debug.py global counter _cdp_message_id
    simple_responses,   \* simple_debug.py global dict _cdp_responses
    simple_ops,         \* the operations of the simple variant in flight
    simple_wire,        \* every command the simple variant has written
    simple_completed,   \* every command outcome the simple variant handed back
    simple_trace,       \* the connection each command was written to and each response came in on
    reply,              \* what the last get_console_logs / get_network_requests did
    teardown,           \* app_lifespan's finally block: runs, closes, what the await gave
    cpu_count,          \* what multiprocessing.cpu_count() returns on this host
    config              \* the M4MaxConfig instance, once constructed

vars == <<lifespan, state, transport, listener, _cdp_message_id, _cdp_responses,
          _cdp_events, ops, wire, inbound, last_message, delivered, completed,
          arrived, simple_message_id, simple_responses, simple_ops, simple_wire,
          simple_completed, simple_trace, reply, teardown, cpu_count, config>>

simple_vars ==
    <<simple_message_id, simple_responses, simple_ops, simple_wire,
      simple_completed, simple_trace>>

config_vars == <<cpu_count, config>>

server_vars ==
    <<lifespan, state, transport, listener, _cdp_message_id, _cdp_responses,
      _cdp_events, ops, wire, inbound, last_message, delivered, completed,
      arrived>>

-----------------------------------------------------------------------------
(* Bounds of the model *)

\* operations (tasks) that may run concurrently
NumOps == 2
\* inbound messages the listener consumes in the listener-only specification
ListenLimit == 3
\* commands that may be sent in one run of concurrent operations: the cap
\* on _cdp_message_id
MaxId == 2
\* commands that may be sent in one run of a single operation
MaxSoloId == 7
\* number of event frames the listener records before the views are read
ViewLimit == 3
\* messages the two listeners consume between them
FrameLimit == 4
\* targets the endpoint lists in one answer to Target.getTargets
TabsLimit == 3

\* commands that may be sent in one run of concurrent sessions
MaxSessionId == 4
\* commands that may be sent in one run of concurrent operations of the
\* simple variant: the cap on simple_debug.py's _cdp_message_id
MaxSimpleId == 3
\* the largest CPU count of a host
MaxCpus == 64

(* Program constants *)

\* server.py: len(_cdp_events[event_type]) > 1000, [-1000:]
RetentionCap == 1000
\* simple_debug.py: for _ in range(100)
PollLimit == 100

-----------------------------------------------------------------------------
(* Python dicts *)

EmptyDict == [k \in {} |-> ""]

HasKey(d, k) == k \in DOMAIN d

Get(d, k, default) == IF k \in DOMAIN d THEN d[k] ELSE default

Put(d, k, v) == [x \in DOMAIN d \cup {k} |-> IF x = k THEN v ELSE d[x]]

\* a lookup that leaves the entry in the dict
Pop_Keep(d, k) == d

Pop(d, k) == [x \in DOMAIN d \ {k} |-> d[x]]

\* lst[-n:]
LastN(lst, n) ==
    IF Len(lst) <= n THEN lst ELSE SubSeq(lst, Len(lst) - n + 1, Len(lst))

\* method.split(".")[0]: the text before the first "."
RECURSIVE FirstSegment(_)
FirstSegment(method) ==
    IF method = <<>> \/ Head(method) = "." THEN <<>>
    ELSE <<Head(method)>> \o FirstSegment(Tail(method))

\* the dict key a segment is: a single chunk, or "" for an empty segment
SegmentKey(seg) == IF seg = <<>> THEN "" ELSE seg[1]

-----------------------------------------------------------------------------
(* Inbound messages.  A message is the text the websocket yields; kind says *)
(* what json.loads makes of it:                                            *)
(*   "object"    a JSON object whose id, if any, is a number and whose     *)
(*               method, if any, is a string; data is that object          *)
(*   "badfield"  a JSON object whose id is unhashable or whose method is   *)
(*               not a string: storing or splitting raises inside the try  *)
(*   "nonobject" a JSON array or scalar                                    *)
(*   "invalid"   not JSON: json.loads raises JSONDecodeError               *)

Message(kind, data) == [kind |-> kind, data |-> data]

Response(id, body) == Message("object", ("id" :> id) @@ body)

Event(method, params) ==
    Message("object", ("method" :> method) @@ ("params" :> params))

WithResult(result) == ("result" :> result)

WithError(message) == ("error" :> ("message" :> message))

\* data["method"].split(".")[0]
EventType(data) == SegmentKey(FirstSegment(data["method"]))

\* a listener that never trims a bucket
RecordEvent_Untrimmed(events, data) ==
    LET event_type == EventType(data)
    IN  Put(events, event_type, Append(Get(events, event_type, <<>>), data))

\* a listener that trims a full bucket from the wrong end
RecordEvent_KeepOldest(events, data) ==
    LET event_type == EventType(data)
        bucket     == Append(Get(events, event_type, <<>>), data)
    IN  Put(events, event_type,
            IF Len(bucket) > RetentionCap THEN SubSeq(bucket, 1, RetentionCap)
            ELSE bucket)

\* a listener that, when it trims a bucket, rebuilds the dict around it
RecordEvent_EvictAll(events, data) ==
    LET event_type == EventType(data)
        bucket     == Append(Get(events, event_type, <<>>), data)
    IN  IF Len(bucket) > RetentionCap
        THEN (event_type :> LastN(bucket, RetentionCap))
        ELSE Put(events, event_type, bucket)

\* _cdp_events after cdp_listener has recorded the event frame data
RecordEvent(events, data) ==
    LET event_type == EventType(data)
        bucket     == Append(Get(events, event_type, <<>>), data)
    IN  Put(events, event_type,
            IF Len(bucket) > RetentionCap THEN LastN(bucket, RetentionCap)
            ELSE bucket)

\* _cdp_responses after cdp_listener has stored the response frame data
StoreResponse(responses, data) == Put(responses, data["id"], data)

\* a listener that looks for "method" before "id"
Route_MethodFirst(msg) ==
    IF msg.kind # "object" THEN "dropped"
    ELSE IF HasKey(msg.data, "method") THEN "event"
    ELSE IF HasKey(msg.data, "id") THEN "response"
    ELSE "ignored"

\* which branch of the loop body a message takes
Route(msg) ==
    IF msg.kind # "object" THEN "dropped"
    ELSE IF HasKey(msg.data, "id") THEN "response"
    ELSE IF HasKey(msg.data, "method") THEN "event"
    ELSE "ignored"

\* a listener without the except clauses inside its loop
\* the finally block of app_lifespan has called cdp_listener_task.cancel()
\* and the task has not run since: CancelledError is what it is resumed with
CancelRequested == lifespan = "awaiting" /\ listener = "running"

cdp_listener_Fragile(msg) ==
    /\ listener = "running"
    /\ ~CancelRequested
    /\ transport = "open"
    /\ LET route == Route(msg) IN
       /\ _cdp_responses' =
             IF route = "response" THEN StoreResponse(_cdp_responses, msg.data)
             ELSE _cdp_responses
       /\ _cdp_events' =
             IF route = "event" THEN RecordEvent(_cdp_events, msg.data)
             ELSE _cdp_events
       /\ delivered' =
             IF route = "response" THEN delivered \cup {msg.data} ELSE delivered
       /\ arrived' =
             IF route = "event" THEN Append(arrived, msg.data) ELSE arrived
       /\ listener' = IF route = "dropped" THEN "finished" ELSE listener
    /\ UNCHANGED <<lifespan, state, transport, _cdp_message_id, ops,
                   wire, completed>>
    /\ UNCHANGED <<simple_vars, reply, teardown, config_vars>>

\* one iteration of "async for message in ws" in cdp_listener: json.loads,
\* the tests of "id" and "method", the split or the store may raise, which
\* the except clauses inside the loop catch before anything was changed
cdp_listener(msg) ==
    /\ listener = "running"
    /\ ~CancelRequested
    /\ transport = "open"
    /\ LET route == Route(msg) IN
       /\ _cdp_responses' =
             IF route = "response" THEN StoreResponse(_cdp_responses, msg.data)
             ELSE _cdp_responses
       /\ _cdp_events' =
             IF route = "event" THEN RecordEvent(_cdp_events, msg.data)
             ELSE _cdp_events
       /\ delivered' =
             IF route = "response" THEN delivered \cup {msg.data} ELSE delivered
       /\ arrived' =
             IF route = "event" THEN Append(arrived, msg.data) ELSE arrived
    /\ UNCHANGED <<lifespan, state, transport, listener, _cdp_message_id, ops,
                   wire, completed>>
    /\ UNCHANGED <<simple_vars, reply, teardown, config_vars>>

-----------------------------------------------------------------------------
(* app_lifespan *)

\* what "await websockets.connect(cdp_uri)" may do
ConnectOutcomes ==
    {"connected", "OSError", "InvalidURI", "ConnectionClosedError",
     "InvalidHandshake"}

\* the tuple of the except clause around the connect
CaughtOnConnect == {"ConnectionClosedError", "OSError", "InvalidURI"}

EmptyState == [cdp_ws |-> "None", cdp_listener_task |-> "None"]

\* app_lifespan arrives at one of its two "yield state"
Yield(td) == [td EXCEPT !.yields = @ + 1]

\* the try block: connect, create the listener task, yield; or the except
\* clause: yield the empty state; or neither: the finally block finds
\* nothing to release and the exception leaves app_lifespan
Connect(outcome) ==
    /\ lifespan = "startup"
    /\ IF outcome = "connected"
       THEN /\ state' = [cdp_ws |-> "ws", cdp_listener_task |-> "task"]
            /\ transport' = "open"
            /\ listener' = "running"
            /\ lifespan' = "yielded"
       ELSE /\ UNCHANGED <<state, transport, listener>>
            /\ lifespan' = IF outcome \in CaughtOnConnect THEN "yielded"
                           ELSE "aborted"
    /\ teardown' = IF outcome \in CaughtOnConnect \cup {"connected"}
                   THEN Yield(teardown)
                   ELSE [teardown EXCEPT !.runs = @ + 1]
    /\ UNCHANGED <<_cdp_message_id, _cdp_responses, _cdp_events, ops, wire,
                   inbound, last_message, delivered, completed, arrived>>
    /\ UNCHANGED <<simple_vars, reply, config_vars>>

\* a loop that awaits the next message inside a try whose handler catches
\* everything: the cancellation is handled as a bad frame and the loop
\* goes on
OnCancel_Swallowed(task) == task

\* The listener task is resumed after cdp_listener_task.cancel(): it is
\* suspended in "async for message in ws", outside the try of the loop
\* body, so CancelledError leaves cdp_listener and the task ends as
\* cancelled; a task that has ended stays as it is
OnCancel(task) == IF task = "running" THEN "cancelled" ELSE task

\* what "await state['cdp_listener_task']" gives the finally block: the
\* CancelledError of a cancelled task ("except asyncio.CancelledError"),
\* the exception a task ended with ("except Exception as e", which logs
\* it), or the return of a task whose loop ended
Awaited(task) ==
    CASE task = "cancelled" -> "CancelledError"
      [] task = "failed"    -> "Exception"
      [] task = "finished"  -> "returned"
      [] OTHER              -> "pending"

\* a finally block that goes on to the close without cancelling the task
\* and without waiting for it
EnterFinally_NoCancel ==
    /\ lifespan' = IF state.cdp_listener_task = "None" THEN "complete"
                   ELSE "closing"
    /\ teardown' = [teardown EXCEPT !.runs = @ + 1]
    /\ UNCHANGED <<state, transport, listener, _cdp_message_id, _cdp_responses,
                   _cdp_events, ops, wire, inbound, last_message, delivered,
                   completed, arrived>>
    /\ UNCHANGED <<simple_vars, reply, config_vars>>

\* The finally block begins, td being the record of what app_lifespan has
\* done so far, and runs to its first suspension.  With no task and no
\* connection in the state it awaits nothing and is over.  Otherwise
\* cdp_listener_task.cancel() requests the cancellation and "await
\* cdp_listener_task" suspends app_lifespan until the task has ended; the
\* await of a task that has already ended gives its result at once, and
\* app_lifespan is next suspended in the close of the connection.
Finally(td) ==
    /\ lifespan' = IF state.cdp_listener_task = "None" THEN "complete"
                   ELSE IF Awaited(listener) = "pending" THEN "awaiting"
                   ELSE "closing"
    /\ teardown' = [td EXCEPT
                       !.runs = @ + 1,
                       !.awaited = IF state.cdp_listener_task # "None"
                                      /\ Awaited(listener) # "pending"
                                   THEN Awaited(listener) ELSE @]
    /\ UNCHANGED <<state, transport, listener, _cdp_message_id, _cdp_responses,
                   _cdp_events, ops, wire, inbound, last_message, delivered,
                   completed, arrived>>
    /\ UNCHANGED <<simple_vars, reply, config_vars>>

\* the finally block is entered from the yield app_lifespan is suspended at
EnterFinally == Finally(teardown)

\* the event loop resumes the listener task whose cancellation was
\* requested
ListenerCancelled ==
    /\ CancelRequested
    /\ listener' = OnCancel(listener)
    /\ UNCHANGED <<lifespan, state, transport, _cdp_message_id, _cdp_responses,
                   _cdp_events, ops, wire, inbound, last_message, delivered,
                   completed, arrived>>
    /\ UNCHANGED <<simple_vars, reply, teardown, config_vars>>

\* The listener task has ended and the event loop resumes app_lifespan at
\* "await state['cdp_listener_task']": CancelledError is caught by "except
\* asyncio.CancelledError: pass", any other exception of the task by
\* "except Exception as e", and the finally block goes on to the close
AwaitListener ==
    /\ lifespan = "awaiting"
    /\ Awaited(listener) # "pending"
    /\ lifespan' = "closing"
    /\ teardown' = [teardown EXCEPT !.awaited = Awaited(listener)]
    /\ UNCHANGED <<state, transport, listener, _cdp_message_id, _cdp_responses,
                   _cdp_events, ops, wire, inbound, last_message, delivered,
                   completed, arrived>>
    /\ UNCHANGED <<simple_vars, reply, config_vars>>

\* an app_lifespan without its finally block
Exit_NoFinally ==
    /\ lifespan = "yielded"
    /\ lifespan' = "complete"
    /\ UNCHANGED <<state, transport, listener, _cdp_message_id, _cdp_responses,
                   _cdp_events, ops, wire, inbound, last_message, delivered,
                   completed, arrived>>
    /\ UNCHANGED <<simple_vars, reply, teardown, config_vars>>

\* the application leaves "async with app_lifespan(...)" normally
Exit ==
    /\ lifespan = "yielded"
    /\ EnterFinally

\* what the application may raise inside "async with app_lifespan(...)"
BodyExceptions == {"OSError", "ConnectionClosedError", "ValueError"}

\* The application raises exc and the context manager throws it into the
\* generator at its yield.  At the yield of the try block an exception of
\* the except clause's tuple is caught there and the generator yields a
\* second time.  What the context manager then does depends on the Python
\* it runs on: it closes the generator before it raises "generator didn't
\* stop after athrow()", so that the finally block is entered from the
\* second yield inside the exit of the context; or it raises at once and
\* leaves the generator suspended at the second yield, its finally block
\* not entered.  Any other exception, and any exception at the yield of
\* the except clause, goes through the finally block.
BodyRaises(exc) ==
    /\ lifespan = "yielded"
    /\ IF state.cdp_ws # "None" /\ exc \in CaughtOnConnect
       THEN \/ Finally(Yield(teardown))
            \/ /\ lifespan' = "abandoned"
               /\ teardown' = Yield(teardown)
               /\ UNCHANGED <<state, transport, listener, _cdp_message_id,
                              _cdp_responses, _cdp_events, ops, wire, inbound,
                              last_message, delivered, completed, arrived>>
               /\ UNCHANGED <<simple_vars, reply, config_vars>>
       ELSE EnterFinally

\* The abandoned generator is closed by the event loop's finalizer when it
\* is collected, if the loop still runs then: GeneratorExit is raised at
\* the second yield and the finally block begins.
Finalize ==
    /\ lifespan = "abandoned"
    /\ EnterFinally

\* "await state['cdp_ws'].close()", the end of the finally block
CloseTransport ==
    /\ lifespan = "closing"
    /\ transport' = "closed"
    /\ lifespan' = "complete"
    /\ teardown' = [teardown EXCEPT !.closes = @ + 1]
    /\ UNCHANGED <<state, listener, _cdp_message_id, _cdp_responses,
                   _cdp_events, ops, wire, inbound, last_message, delivered,
                   completed, arrived>>
    /\ UNCHANGED <<simple_vars, reply, config_vars>>

\* The endpoint (or the network) closes the connection.  The listener
\* task, suspended in "async for message in ws", is made ready by it and
\* runs in a later turn of the event loop; until then an operation or the
\* finally block of app_lifespan may run.
TransportLost ==
    /\ transport = "open"
    /\ transport' = "closed"
    /\ UNCHANGED <<lifespan, state, listener, _cdp_message_id, _cdp_responses,
                   _cdp_events, ops, wire, inbound, last_message, delivered,
                   completed, arrived>>
    /\ UNCHANGED <<simple_vars, reply, teardown, config_vars>>

\* The event loop resumes the listener task on a connection that is closed.
\* After a closing handshake "async for message in ws" ends, and with it
\* the task; without one the iteration raises ConnectionClosedError, which
\* is raised outside the try of the loop body and ends the task with that
\* exception.  A task whose cancellation was requested in the meantime is
\* resumed with CancelledError instead.
ListenerEnds ==
    /\ listener = "running"
    /\ transport = "closed"
    /\ ~CancelRequested
    /\ \E ended \in {"finished", "failed"} : listener' = ended
    /\ UNCHANGED <<lifespan, state, transport, _cdp_message_id, _cdp_responses,
                   _cdp_events, ops, wire, inbound, last_message, delivered,
                   completed, arrived>>
    /\ UNCHANGED <<simple_vars, reply, teardown, config_vars>>

-----------------------------------------------------------------------------
(* Commands: send_cdp_command and create_tab_session.send_page_command *)

Ops == 1..NumOps

Kinds == {"list_tabs", "get_tab_content", "inspect_element"}

Method(namespace, name) == <<namespace, ".", name>>

NoSession == <<>>

\* the CDP method each command of an operation sends
MethodOf(pc) ==
    CASE pc = "getTargets"       -> Method("Target", "getTargets")
      [] pc = "attach"           -> Method("Target", "attachToTarget")
      [] pc = "getDocument"      -> Method("DOM", "getDocument")
      [] pc = "querySelector"    -> Method("DOM", "querySelector")
      [] pc = "describeNode"     -> Method("DOM", "describeNode")
      [] pc = "getComputedStyle" -> Method("CSS", "getComputedStyleForNode")
      [] pc = "getOuterHTML"     -> Method("DOM", "getOuterHTML")
      [] pc \in {"detach", "detach_not_found"}
                                 -> Method("Target", "detachFromTarget")
      [] pc = "enableConsole"    -> Method("Console", "enable")
      [] pc = "enableNetwork"    -> Method("Network", "enable")

\* the commands sent through the session's send_page_command
PageCommands ==
    {"getDocument", "querySelector", "describeNode", "getComputedStyle",
     "getOuterHTML", "enableConsole", "enableNetwork"}

\* a detach that does not name the session it is to close
ParamsOf_DetachUnnamed(op) ==
    CASE op.pc = "getTargets"  -> EmptyDict
      [] op.pc = "attach"      -> ("targetId" :> op.target) @@ ("flatten" :> TRUE)
      [] op.pc = "getDocument" -> ("depth" :> 1)
      [] op.pc = "querySelector" ->
            ("nodeId" :> op.node_id) @@ ("selector" :> op.selector)
      [] op.pc = "describeNode" ->
            ("nodeId" :> op.node_id) @@ ("depth" :> 1) @@ ("pierce" :> TRUE)
      [] op.pc \in {"getComputedStyle", "getOuterHTML"} ->
            ("nodeId" :> op.node_id)
      [] OTHER -> EmptyDict

\* the params argument of each command
ParamsOf(op) ==
    CASE op.pc = "getTargets"  -> EmptyDict
      [] op.pc = "attach"      -> ("targetId" :> op.target) @@ ("flatten" :> TRUE)
      [] op.pc = "getDocument" -> ("depth" :> 1)
      [] op.pc = "querySelector" ->
            ("nodeId" :> op.node_id) @@ ("selector" :> op.selector)
      [] op.pc = "describeNode" ->
            ("nodeId" :> op.node_id) @@ ("depth" :> 1) @@ ("pierce" :> TRUE)
      [] op.pc \in {"getComputedStyle", "getOuterHTML"} ->
            ("nodeId" :> op.node_id)
      [] op.pc \in {"detach", "detach_not_found"} ->
            ("sessionId" :> op.session_id)
      [] op.pc \in {"enableConsole", "enableNetwork"} -> EmptyDict

\* the command dict of send_cdp_command
RootCommand(message_id, method, params) ==
    ("id" :> message_id) @@ ("method" :> method) @@ ("params" :> params)

\* a sender that tags with the session attached last on the connection
\* instead of the one its own create_tab_session call attached
PageCommand_LastAttached(session_id, message_id, method, params) ==
    LET opened == {f \in delivered :
                      /\ HasKey(f, "result")
                      /\ HasKey(f["result"], "sessionId")}
        last   == CHOOSE f \in opened : \A g \in opened : g["id"] <= f["id"]
    IN  ("sessionId" :> last["result"]["sessionId"]) @@ ("id" :> message_id)
            @@ ("method" :> method) @@ ("params" :> params)

\* the command dict of send_page_command: the closure's session_id on top
PageCommand(session_id, message_id, method, params) ==
    ("sessionId" :> session_id) @@ ("id" :> message_id)
        @@ ("method" :> method) @@ ("params" :> params)

Envelope(op) ==
    IF op.pc \in PageCommands
    THEN PageCommand(op.session_id, op.message_id, MethodOf(op.pc), ParamsOf(op))
    ELSE RootCommand(op.message_id, MethodOf(op.pc), ParamsOf(op))

\* an allocation that hands out the counter without advancing it
NextId_Reuse(counter) == IF counter = 0 THEN 1 ELSE counter

\* "_cdp_message_id += 1"
NextId(counter) == counter + 1

Return(value) == [tag |-> "return", exc |-> "", msg |-> <<>>, value |-> value]

Raise(exc, msg) == [tag |-> "raise", exc |-> exc, msg |-> msg, value |-> EmptyDict]

\* what send_cdp_command / send_page_command makes of the popped response
Resolve(response) ==
    IF HasKey(response, "error")
    THEN IF HasKey(response["error"], "message")
         THEN Raise("RuntimeError", <<"CDP Error: ">> \o response["error"]["message"])
         ELSE Raise("KeyError", <<"message">>)
    ELSE Return(Get(response, "result", EmptyDict))

-----------------------------------------------------------------------------
(* Operations: list_tabs, get_tab_content, inspect_element, and the two *)
(* tools that enable an event domain on every page target              *)

\* infos, pending and results are the targetInfos, the rest of
\* page_targets and the results list of the two enabling tools
IdleOp(o) ==
    [kind |-> "none", pc |-> "idle", phase |-> "none", message_id |-> 0,
     target |-> <<"T", o>>, selector |-> "#sel", session_id |-> NoSession,
     node_id |-> "", acc |-> EmptyDict, ret |-> EmptyDict,
     infos |-> <<>>, pending |-> <<>>, results |-> <<>>]

EnableKinds == {"enable_console_logs", "enable_network_monitoring"}

\* str(e)
Str(out) == IF out.exc = "KeyError" THEN <<"'">> \o out.msg \o <<"'">> ELSE out.msg

Finish(op, ret) == [op EXCEPT !.pc = "done", !.phase = "none", !.ret = ret]

Goto(op, pc) == [op EXCEPT !.pc = pc, !.phase = "alloc"]

ErrorResult(text) == ("error" :> text)

NotConnected == ErrorResult(<<"Not connected to Chrome.">>)

\* the two except clauses that close each operation
Except(op, out) ==
    IF out.exc \in {"RuntimeError", "ConnectionClosed"}
    THEN CASE op.kind = "get_tab_content" ->
                ErrorResult(<<"Error communicating with Chrome for tab ", op.target, ": ">>
                            \o out.msg)
           [] OTHER ->
                ErrorResult(<<"Error communicating with Chrome: ">> \o out.msg)
    ELSE CASE op.kind = "list_tabs" ->
                ErrorResult(<<"An unexpected error occurred.">>)
           [] op.kind = "get_tab_content" ->
                ErrorResult(<<"An unexpected error occurred processing tab ", op.target, ".">>)
           [] OTHER ->
                ErrorResult(<<"An unexpected error occurred: ">> \o Str(out))

\* the comprehension that builds page_targets
PageTargets(infos) ==
    LET pages == SelectSeq(infos, LAMBDA t : t["type"] = "page")
    IN  [n \in 1..Len(pages) |-> pages[n]["targetId"]]

\* the key whose lookup makes that comprehension raise KeyError, "" when
\* it does not raise
PageTargetsMissing(infos) ==
    LET bad == {i \in 1..Len(infos) :
                   \/ ~HasKey(infos[i], "type")
                   \/ infos[i]["type"] = "page" /\ ~HasKey(infos[i], "targetId")}
    IN  IF bad = {} THEN ""
        ELSE LET i == CHOOSE k \in bad : \A j \in bad : k <= j
             IN  IF HasKey(infos[i], "type") THEN "targetId" ELSE "type"

\* "next((t for t in targetInfos if t['targetId'] == target_id), {})": the
\* place of the first target the generator stops at, one without a
\* targetId included; 0 when it runs to the end
LookedUp(infos, target_id) ==
    LET hits == {i \in 1..Len(infos) :
                    \/ ~HasKey(infos[i], "targetId")
                    \/ infos[i]["targetId"] = target_id}
    IN  IF hits = {} THEN 0 ELSE CHOOSE i \in hits : \A j \in hits : i <= j

EnabledStatus(kind) ==
    IF kind = "enable_console_logs" THEN "console_enabled"
    ELSE "network_monitoring_enabled"

\* the entry appended after the domain was enabled for op.target, or the
\* KeyError of the lookup
EnabledEntry(op) ==
    LET at          == LookedUp(op.infos, op.target)
        target_info == IF at = 0 THEN EmptyDict ELSE op.infos[at]
    IN  IF at # 0 /\ ~HasKey(target_info, "targetId")
        THEN Raise("KeyError", <<"targetId">>)
        ELSE Return(("targetId" :> op.target)
                        @@ ("title" :> Get(target_info, "title", ""))
                        @@ ("url" :> Get(target_info, "url", ""))
                        @@ ("status" :> EnabledStatus(op.kind)))

\* "except Exception as e: results.append(...)" inside the loop
ErrorEntry(op, out) == ("targetId" :> op.target) @@ ("error" :> Str(out))

\* a loop that stops at the first target that fails
NextTarget_StopAtFailure(op, entry) ==
    LET results == Append(op.results, entry)
        rest    == Tail(op.pending)
    IN  IF rest = <<>> \/ HasKey(entry, "error")
        THEN Finish([op EXCEPT !.results = results, !.pending = rest],
                    ("status" :> "success") @@ ("tabs" :> results))
        ELSE Goto([op EXCEPT !.results = results, !.pending = rest,
                             !.target = Head(rest)], "attach")

\* the entry for op.target is appended and the loop goes to the next page
\* target, or the tool returns its results
NextTarget(op, entry) ==
    LET results == Append(op.results, entry)
        rest    == Tail(op.pending)
    IN  IF rest = <<>>
        THEN Finish([op EXCEPT !.results = results, !.pending = rest],
                    ("status" :> "success") @@ ("tabs" :> results))
        ELSE Goto([op EXCEPT !.results = results, !.pending = rest,
                             !.target = Head(rest)], "attach")

\* the two tools after Target.getTargets returned value
AfterTargets(op, value) ==
    LET infos   == Get(value, "targetInfos", <<>>)
        missing == PageTargetsMissing(infos)
    IN  IF missing # "" THEN Finish(op, Except(op, Raise("KeyError", <<missing>>)))
        ELSE LET page_targets == PageTargets(infos) IN
             IF page_targets = <<>>
             THEN Finish(op, ("status" :> "success") @@ ("tabs" :> <<>>))
             ELSE Goto([op EXCEPT !.infos = infos, !.pending = page_targets,
                                  !.target = Head(page_targets)], "attach")

\* the list comprehension of list_tabs
RECURSIVE Tabs(_)
Tabs(infos) ==
    IF infos = <<>> THEN <<>>
    ELSE LET t == Head(infos) IN
         (IF t["type"] = "page"
          THEN << ("id" :> t["targetId"]) @@ ("title" :> t["title"])
                  @@ ("url" :> t["url"]) @@ ("type" :> t["type"]) >>
          ELSE <<>>) \o Tabs(Tail(infos))

\* whether the comprehension raises KeyError
TabsRaises(infos) ==
    \E i \in 1..Len(infos) :
        \/ ~HasKey(infos[i], "type")
        \/ /\ infos[i]["type"] = "page"
           /\ {"targetId", "title", "url"} \ DOMAIN infos[i] # {}

\* the operation after one of its commands returned value
AfterReturn(op, value) ==
    CASE op.pc = "getTargets" /\ op.kind \in EnableKinds -> AfterTargets(op, value)
      [] op.pc = "attach" /\ op.kind \in EnableKinds ->
            IF HasKey(value, "sessionId")
            THEN Goto([op EXCEPT !.session_id = value["sessionId"]],
                      IF op.kind = "enable_console_logs" THEN "enableConsole"
                      ELSE "enableNetwork")
            ELSE NextTarget(op, ErrorEntry(op, Raise("KeyError", <<"sessionId">>)))
      [] op.pc \in {"enableConsole", "enableNetwork"} ->
            LET entry == EnabledEntry(op) IN
            NextTarget(op, IF entry.tag = "raise" THEN ErrorEntry(op, entry)
                           ELSE entry.value)
      [] op.pc = "getTargets" ->
            LET infos == Get(value, "targetInfos", <<>>) IN
            IF TabsRaises(infos)
            THEN Finish(op, Except(op, Raise("KeyError", <<"type">>)))
            ELSE Finish(op, ("tabs" :> Tabs(infos)))
      [] op.pc = "attach" ->
            IF HasKey(value, "sessionId")
            THEN Goto([op EXCEPT !.session_id = value["sessionId"]], "getDocument")
            ELSE Finish(op, Except(op, Raise("KeyError", <<"sessionId">>)))
      [] op.pc = "getDocument" ->
            IF HasKey(value, "root") /\ HasKey(value["root"], "nodeId")
            THEN Goto([op EXCEPT !.node_id = value["root"]["nodeId"]],
                      IF op.kind = "get_tab_content" THEN "getOuterHTML"
                      ELSE "querySelector")
            ELSE Finish(op, Except(op, Raise("KeyError",
                        IF HasKey(value, "root") THEN <<"nodeId">> ELSE <<"root">>)))
      [] op.pc = "querySelector" ->
            IF Get(value, "nodeId", "") = ""
            THEN Goto(op, "detach_not_found")
            ELSE Goto([op EXCEPT !.node_id = value["nodeId"]], "describeNode")
      [] op.pc = "describeNode" ->
            Goto([op EXCEPT !.acc = ("nodeDetails" :> Get(value, "node", EmptyDict))],
                 "getComputedStyle")
      [] op.pc = "getComputedStyle" ->
            Goto([op EXCEPT !.acc = @ @@ ("computedStyles" :> Get(value, "computedStyle", <<>>))],
                 "getOuterHTML")
      [] op.pc = "getOuterHTML" ->
            Goto([op EXCEPT !.acc = @ @@ ("outerHTML" :> Get(value, "outerHTML", ""))],
                 "detach")
      [] op.pc = "detach" ->
            Finish(op, IF op.kind = "get_tab_content"
                       THEN ("targetId" :> op.target) @@ ("outerHTML" :> op.acc["outerHTML"])
                       ELSE ("targetId" :> op.target) @@ ("selector" :> op.selector) @@ op.acc)
      [] op.pc = "detach_not_found" ->
            Finish(op, ErrorResult(<<"Element not found with selector: ", op.selector>>))

\* the operation after one of its commands ended with outcome out
After(op, out) ==
    IF out.tag = "raise"
    THEN IF op.kind \in EnableKinds /\ op.pc # "getTargets"
         THEN NextTarget(op, ErrorEntry(op, out))
         ELSE Finish(op, Except(op, out))
    ELSE AfterReturn(op, out.value)

\* "await ws.send(json.dumps(command))" on a connection that is closed
ConnectionClosed == Raise("ConnectionClosed", <<"connection closed">>)

\* An operation runs without suspending from the point it is resumed up to
\* the first suspension inside ws.send, which comes after the frame has been
\* written: it allocates the id of its next command and writes the command,
\* or ws.send raises and the operation's except clause returns.
RECURSIVE RunToSuspension(_, _, _, _)
RunToSuspension(op, counter, sent, open) ==
    IF op.phase # "alloc" THEN [op |-> op, counter |-> counter, sent |-> sent]
    ELSE LET id      == NextId(counter)
             sending == [op EXCEPT !.message_id = id]
         IN  IF open
             THEN [op      |-> [sending EXCEPT !.phase = "poll"],
                   counter |-> id,
                   sent    |-> Append(sent, Envelope(sending))]
             ELSE RunToSuspension(After(sending, ConnectionClosed), id, sent, open)

\* the model's cap on the counter: no step allocates an id beyond cap
WithinCap(op, cap) == op.phase = "alloc" => _cdp_message_id < cap

\* an operation that goes to the page without attaching to it
FirstCommand_SkipAttach(kind) ==
    IF kind \in {"list_tabs"} \cup EnableKinds THEN "getTargets" ELSE "getDocument"

\* list_tabs and the two enabling tools ask for the targets; the other
\* operations begin with create_tab_session, whose first command is the
\* attach
FirstCommand(kind) ==
    IF kind \in {"list_tabs"} \cup EnableKinds THEN "getTargets" ELSE "attach"

\* an operation that does not look at the connection it was handed
HasConnection_Unchecked(ws) == TRUE

\* "ws = ...get('cdp_ws'); if not ws: return ..." of every operation
HasConnection(ws) == ws # "None"

\* an operation is invoked
Call(o, kind, cap) ==
    /\ lifespan = "yielded"
    /\ ops[o].pc = "idle"
    /\ LET op   == [ops[o] EXCEPT !.kind = kind]
           next == IF HasConnection(state.cdp_ws) THEN Goto(op, FirstCommand(kind))
                   ELSE Finish(op, NotConnected)
           run  == RunToSuspension(next, _cdp_message_id, wire, transport = "open")
       IN /\ WithinCap(next, cap)
          /\ ops' = [ops EXCEPT ![o] = run.op]
          /\ _cdp_message_id' = run.counter
          /\ wire' = run.sent
    /\ UNCHANGED <<lifespan, state, transport, listener, _cdp_responses,
                   _cdp_events, inbound, last_message, delivered, completed,
                   arrived>>
    /\ UNCHANGED <<simple_vars, reply, teardown, config_vars>>

\* a waiting loop that takes whichever response is in the table
AwaitedId_AnyKey(op) ==
    IF DOMAIN _cdp_responses = {} THEN op.message_id
    ELSE CHOOSE k \in DOMAIN _cdp_responses : TRUE

\* the key the waiting loop looks up and pops
AwaitedId(op) == op.message_id

\* "while message_id not in _cdp_responses: sleep" has ended: pop, resolve,
\* and run on to the next command or to the return
Poll(o, cap) ==
    /\ ops[o].phase = "poll"
    /\ AwaitedId(ops[o]) \in DOMAIN _cdp_responses
    /\ LET response == _cdp_responses[AwaitedId(ops[o])]
           out      == Resolve(response)
           next     == After(ops[o], out)
           run      == RunToSuspension(next, _cdp_message_id, wire, transport = "open")
       IN /\ WithinCap(next, cap)
          /\ _cdp_responses' = Pop(_cdp_responses, AwaitedId(ops[o]))
          /\ completed' = completed \cup
                {[id |-> ops[o].message_id, response |-> response, out |-> out]}
          /\ ops' = [ops EXCEPT ![o] = run.op]
          /\ _cdp_message_id' = run.counter
          /\ wire' = run.sent
    /\ UNCHANGED <<lifespan, state, transport, listener, _cdp_events,
                   inbound, last_message, delivered, arrived>>
    /\ UNCHANGED <<simple_vars, reply, teardown, config_vars>>

-----------------------------------------------------------------------------
(* The remote endpoint *)

TargetInfo(id, type) ==
    ("targetId" :> id) @@ ("title" :> "A") @@ ("url" :> "http://x") @@ ("type" :> type)

\* the result the endpoint gives a command it accepts
ProperResult(command) ==
    LET m == command["method"] IN
    CASE m = Method("Target", "getTargets") ->
            ("targetInfos" :> <<TargetInfo("T1", "page"), TargetInfo("W1", "worker")>>)
      [] m = Method("Target", "attachToTarget") ->
            ("sessionId" :> <<"session", command["id"]>>)
      [] m = Method("DOM", "getDocument") -> ("root" :> ("nodeId" :> "n1"))
      [] m = Method("DOM", "querySelector") -> ("nodeId" :> "n2")
      [] m = Method("DOM", "describeNode") -> ("node" :> ("nodeName" :> "DIV"))
      [] m = Method("CSS", "getComputedStyleForNode") ->
            ("computedStyle" :> <<"display">>)
      [] m = Method("DOM", "getOuterHTML") -> ("outerHTML" :> "<html>")
      [] OTHER -> EmptyDict

\* the bodies of the response frames the endpoint may answer a command with:
\* its result, a frame with neither result nor error, or an error
Answers(command) ==
    {WithResult(ProperResult(command)), EmptyDict,
     WithError(<<"refused ", command["id"]>>)}

Answered(id) == \E f \in delivered : f["id"] = id

\* the endpoint answers a command it has received and not answered yet
Answer(i, body) ==
    /\ ~Answered(wire[i]["id"])
    /\ cdp_listener(Response(wire[i]["id"], body))
    /\ UNCHANGED <<inbound, last_message>>

-----------------------------------------------------------------------------
(* The event views: get_console_logs, get_network_requests *)

\* A JSON array where the code expects an object.  Objects are functions on
\* their keys; an array is kept apart from them by the key "[]".
JsonArray(items) == ("[]" :> items)

\* whether v has the method get, which the views call on every payload
IsDict(v) == ~HasKey(v, "[]")

\* "'list' object has no attribute 'get'"
NoGet == Raise("AttributeError", <<"'list' object has no attribute 'get'">>)

\* "if request_id:" for the value of params.get("requestId")
Truthy(request_id) == request_id # "None" /\ request_id # ""

\* the record built for a Network.requestWillBeSent event
PendingRecord(request_id, params) ==
    LET request == Get(params, "request", EmptyDict) IN
    ("requestId" :> request_id)
        @@ ("url" :> Get(request, "url", ""))
        @@ ("method" :> Get(request, "method", ""))
        @@ ("headers" :> Get(request, "headers", EmptyDict))
        @@ ("timestamp" :> Get(params, "timestamp", 0))
        @@ ("status" :> "pending")
        @@ ("type" :> Get(params, "type", ""))

\* the dict handed to request_map[request_id].update for a
\* Network.responseReceived event
ReceivedUpdate(params) ==
    LET response == Get(params, "response", EmptyDict) IN
    ("status" :> "received")
        @@ ("statusCode" :> Get(response, "status", 0))
        @@ ("statusText" :> Get(response, "statusText", ""))
        @@ ("mimeType" :> Get(response, "mimeType", ""))
        @@ ("responseHeaders" :> Get(response, "headers", EmptyDict))

\* dict.update: the keys of changes replace those of record
Update(record, changes) == changes @@ record

\* request_map before the loop: the records by id, and the ids in the order
\* they were inserted, which is the order of request_map.values()
\* Beside them, what the loop does to objects: at is the number of events
\* it has gone through, owner names for each id the object that
\* request_map[id] is bound to, and writes holds, by the place of a
\* recorded event in the bucket, what the loop has written into that
\* event's params
EmptyRequestMap ==
    [tag |-> "return", order |-> <<>>, map |-> EmptyDict,
     at |-> 0, owner |-> EmptyDict, writes |-> EmptyDict]

\* the dict literal that request_map[request_id] is bound to: a new
\* object, part of no recorded event
Literal == <<"literal">>

\* "request_map[request_id].update(changes)" as the recorded events see
\* it: the update of a dict literal changes no event; the update of an
\* object that is the params of the recorded event at place k changes that
\* event
WriteThrough(writes, owner, changes) ==
    IF owner = Literal THEN writes
    ELSE LET k == owner[2] IN
         Put(writes, k, Update(Get(writes, k, EmptyDict), changes))

RaisedInLoop(acc) == [acc EXCEPT !.tag = "raise"]

\* a merge that makes a record out of a response nobody asked for
MergeEvent_AdoptOrphan(acc, event) ==
    LET method     == Get(event, "method", <<>>)
        params     == Get(event, "params", EmptyDict)
        request_id == Get(params, "requestId", "None")
    IN  IF method = Method("Network", "requestWillBeSent") /\ Truthy(request_id)
        THEN [acc EXCEPT !.map = Put(acc.map, request_id,
                                     PendingRecord(request_id, params)),
                         !.order = IF HasKey(acc.map, request_id) THEN @
                                   ELSE Append(@, request_id)]
        ELSE IF method = Method("Network", "responseReceived") /\ Truthy(request_id)
        THEN [acc EXCEPT !.map = Put(acc.map, request_id,
                                     Update(Get(acc.map, request_id,
                                                ("requestId" :> request_id)),
                                            ReceivedUpdate(params))),
                         !.order = IF HasKey(acc.map, request_id) THEN @
                                   ELSE Append(@, request_id)]
        ELSE acc

\* a merge that keeps the record of a request that is sent again
MergeEvent_KeepFirst(acc, event) ==
    LET method     == Get(event, "method", <<>>)
        params     == Get(event, "params", EmptyDict)
        request_id == Get(params, "requestId", "None")
    IN  IF method = Method("Network", "requestWillBeSent") /\ Truthy(request_id)
           /\ ~HasKey(acc.map, request_id)
        THEN [acc EXCEPT !.map = Put(acc.map, request_id,
                                     PendingRecord(request_id, params)),
                         !.order = Append(@, request_id)]
        ELSE IF method = Method("Network", "responseReceived")
                /\ HasKey(acc.map, request_id)
        THEN [acc EXCEPT !.map = Put(acc.map, request_id,
                                     Update(acc.map[request_id],
                                            ReceivedUpdate(params)))]
        ELSE acc

\* a merge that takes the params of the recorded event as the record of
\* the request ("request_map[request_id] = params") and marks it pending
MergeEvent_SharedRecord(acc, event) ==
    LET method == Get(event, "method", <<>>)
        params == Get(event, "params", EmptyDict)
        here   == <<"params", acc.at + 1>>
    IN  IF acc.tag = "raise" THEN acc
        ELSE IF method = Method("Network", "requestWillBeSent")
        THEN IF ~IsDict(params) THEN RaisedInLoop(acc)
             ELSE LET request_id == Get(params, "requestId", "None") IN
                  IF ~Truthy(request_id) THEN acc
                  ELSE [acc EXCEPT
                           !.map = Put(acc.map, request_id,
                                       Update(params, ("status" :> "pending"))),
                           !.owner = Put(acc.owner, request_id, here),
                           !.writes = WriteThrough(@, here, ("status" :> "pending")),
                           !.order = IF HasKey(acc.map, request_id) THEN @
                                     ELSE Append(@, request_id)]
        ELSE IF method = Method("Network", "responseReceived")
        THEN IF ~IsDict(params) THEN RaisedInLoop(acc)
             ELSE LET request_id == Get(params, "requestId", "None") IN
                  IF ~(Truthy(request_id) /\ HasKey(acc.map, request_id)) THEN acc
                  ELSE IF ~IsDict(Get(params, "response", EmptyDict))
                  THEN RaisedInLoop(acc)
                  ELSE [acc EXCEPT
                           !.map = Put(acc.map, request_id,
                                       Update(acc.map[request_id],
                                              ReceivedUpdate(params))),
                           !.writes = WriteThrough(@, acc.owner[request_id],
                                                   ReceivedUpdate(params))]
        ELSE acc

\* one pass of "for event in _cdp_events.get('Network', [])"
MergeEvent(acc, event) ==
    LET method == Get(event, "method", <<>>)
        params == Get(event, "params", EmptyDict)
    IN  IF acc.tag = "raise" THEN acc
        ELSE IF method = Method("Network", "requestWillBeSent")
        THEN IF ~IsDict(params) THEN RaisedInLoop(acc)
             ELSE LET request_id == Get(params, "requestId", "None") IN
                  IF ~Truthy(request_id) THEN acc
                  ELSE IF ~IsDict(Get(params, "request", EmptyDict))
                  THEN RaisedInLoop(acc)
                  ELSE [acc EXCEPT
                           !.map = Put(acc.map, request_id,
                                       PendingRecord(request_id, params)),
                           !.owner = Put(acc.owner, request_id, Literal),
                           !.order = IF HasKey(acc.map, request_id) THEN @
                                     ELSE Append(@, request_id)]
        ELSE IF method = Method("Network", "responseReceived")
        THEN IF ~IsDict(params) THEN RaisedInLoop(acc)
             ELSE LET request_id == Get(params, "requestId", "None") IN
                  IF ~(Truthy(request_id) /\ HasKey(acc.map, request_id)) THEN acc
                  ELSE IF ~IsDict(Get(params, "response", EmptyDict))
                  THEN RaisedInLoop(acc)
                  ELSE [acc EXCEPT
                           !.map = Put(acc.map, request_id,
                                       Update(acc.map[request_id],
                                              ReceivedUpdate(params))),
                           !.writes = WriteThrough(@, acc.owner[request_id],
                                                   ReceivedUpdate(params))]
        ELSE acc

\* the loop over the bucket, oldest event first: the events of the first
\* half are merged, then those of the second half
RECURSIVE MergeEvents(_, _)
MergeEvents(acc, bucket) ==
    IF bucket = <<>> THEN acc
    ELSE IF Len(bucket) = 1
    THEN [MergeEvent(acc, bucket[1]) EXCEPT !.at = acc.at + 1]
    ELSE LET half  == Len(bucket) \div 2
             first == MergeEvents(acc, SubSeq(bucket, 1, half))
         IN  IF first.tag = "raise" THEN first
             ELSE MergeEvents(first, SubSeq(bucket, half + 1, Len(bucket)))

\* what get_network_requests returns, or the exception that leaves it
get_network_requests(events) ==
    IF ~HasKey(events, "Network") THEN Return(("requests" :> <<>>))
    ELSE LET merged == MergeEvents(EmptyRequestMap, events["Network"]) IN
         IF merged.tag = "raise" THEN NoGet
         ELSE Return(("requests" :>
                  [n \in 1..Len(merged.order) |-> merged.map[merged.order[n]]]))

\* one element of the comprehension of get_console_logs
ConsoleEntry(event) ==
    LET params  == Get(event, "params", EmptyDict)
        message == Get(params, "message", EmptyDict)
    IN  ("timestamp" :> Get(params, "timestamp", 0))
            @@ ("level" :> Get(message, "level", "info"))
            @@ ("text" :> Get(message, "text", ""))
            @@ ("url" :> Get(message, "url", ""))
            @@ ("line" :> Get(message, "line", 0))
            @@ ("source" :> Get(message, "source", ""))

\* whether building the element for event raises AttributeError
ConsoleEntryRaises(event) ==
    LET params == Get(event, "params", EmptyDict) IN
    \/ ~IsDict(params)
    \/ ~IsDict(Get(params, "message", EmptyDict))

RECURSIVE ConsoleEntries(_)
ConsoleEntries(bucket) ==
    IF bucket = <<>> THEN <<>>
    ELSE (IF Get(Head(bucket), "method", <<>>) = Method("Console", "messageAdded")
          THEN <<ConsoleEntry(Head(bucket))>> ELSE <<>>)
         \o ConsoleEntries(Tail(bucket))

\* what get_console_logs returns, or the exception that leaves it
get_console_logs(events) ==
    IF ~HasKey(events, "Console") THEN Return(("logs" :> <<>>))
    ELSE LET bucket == events["Console"] IN
         IF \E n \in 1..Len(bucket) :
               /\ Get(bucket[n], "method", <<>>) = Method("Console", "messageAdded")
               /\ ConsoleEntryRaises(bucket[n])
         THEN NoGet
         ELSE Return(("logs" :> ConsoleEntries(bucket)))

QueryKinds == {"get_console_logs", "get_network_requests"}

\* The event buckets as a view leaves them.  get_console_logs builds its
\* entries as dict literals and updates none; get_network_requests leaves
\* in the Network bucket what its loop has written into recorded events.
Stored(kind, events) ==
    IF kind = "get_network_requests" /\ HasKey(events, "Network")
    THEN LET bucket == events["Network"]
             writes == MergeEvents(EmptyRequestMap, bucket).writes
         IN  IF writes = EmptyDict THEN events
             ELSE Put(events, "Network",
                      [k \in 1..Len(bucket) |->
                          IF HasKey(writes, k)
                          THEN Put(bucket[k], "params",
                                   Update(Get(bucket[k], "params", EmptyDict),
                                          writes[k]))
                          ELSE bucket[k]])
    ELSE events

\* one of the two views is read; neither looks at the connection
Query(kind) ==
    /\ lifespan = "yielded"
    /\ reply' = [op   |-> kind,
                 seen |-> Len(arrived),
                 out  |-> IF kind = "get_console_logs"
                          THEN get_console_logs(_cdp_events)
                          ELSE get_network_requests(_cdp_events)]
    /\ _cdp_events' = Stored(kind, _cdp_events)
    /\ UNCHANGED <<lifespan, state, transport, listener, _cdp_message_id,
                   _cdp_responses, ops, wire, inbound, last_message, delivered,
                   completed, arrived>>
    /\ UNCHANGED <<simple_vars, teardown, config_vars>>

-----------------------------------------------------------------------------
(* simple_debug.py: one connection per operation, bounded polling *)

SimpleKinds == {"list_tabs", "get_tab_content"}

\* Python's None where a session id or a node id is expected
NoneSession == <<"None">>

NoneNode == "None"

SimpleIdleOp(o) ==
    [kind |-> "none", pc |-> "idle", phase |-> "none", ws |-> "None",
     listener |-> "none", message_id |-> 0, polls |-> 0, target |-> <<"T", o>>,
     session_id |-> NoneSession, node_id |-> NoneNode, html |-> "",
     ret |-> EmptyDict]

\* nothing queried yet, app_lifespan's finally block not entered
NoReply == [op |-> "none", seen |-> 0, out |-> Return(EmptyDict)]

\* app_lifespan has not yielded and its finally block is not entered
NoTeardown == [yields |-> 0, runs |-> 0, closes |-> 0, awaited |-> "not awaited"]

\* no command written, no response received, on any connection
NoTrace == [sent |-> <<>>, stored |-> {}]

\* simple_trace after operation o ran send_cdp_command up to its first
\* look: sent names, for each command of simple_wire, the operation whose
\* connection it was written to
Written(trace, o, before, after) ==
    IF Len(after) > Len(before) THEN [trace EXCEPT !.sent = Append(@, o)]
    ELSE trace

SimpleIdle ==
    /\ reply = NoReply
    /\ simple_message_id = 0
    /\ simple_responses = EmptyDict
    /\ simple_ops = [o \in Ops |-> SimpleIdleOp(o)]
    /\ simple_wire = <<>>
    /\ simple_completed = {}
    /\ simple_trace = NoTrace

\* the params argument of each command of simple_debug.py: the session id
\* travels inside params
SimpleParamsOf(op) ==
    CASE op.pc = "getTargets"  -> EmptyDict
      [] op.pc = "attach"      -> ("targetId" :> op.target) @@ ("flatten" :> TRUE)
      [] op.pc = "getDocument" -> ("sessionId" :> op.session_id) @@ ("depth" :> 1)
      [] op.pc = "getOuterHTML" ->
            ("sessionId" :> op.session_id) @@ ("nodeId" :> op.node_id)
      [] op.pc = "detach"      -> ("sessionId" :> op.session_id)

\* the command dict of simple_debug.send_cdp_command
SimpleEnvelope(op) == RootCommand(op.message_id, MethodOf(op.pc), SimpleParamsOf(op))

\* what simple_debug.send_cdp_command makes of the popped response
SimpleResolve(response) == Return(Get(response, "result", EmptyDict))

\* the list comprehension of simple_debug.list_tabs
RECURSIVE SimpleTabs(_)
SimpleTabs(infos) ==
    IF infos = <<>> THEN <<>>
    ELSE LET t == Head(infos) IN
         (IF t["type"] = "page"
          THEN << ("id" :> t["targetId"]) @@ ("title" :> t["title"])
                  @@ ("url" :> t["url"]) >>
          ELSE <<>>) \o SimpleTabs(Tail(infos))

\* the key whose lookup raises KeyError in the comprehension
RECURSIVE MissingKey(_)
MissingKey(infos) ==
    LET t == Head(infos) IN
    IF ~HasKey(t, "type") THEN "type"
    ELSE IF t["type"] = "page" /\ ~HasKey(t, "targetId") THEN "targetId"
    ELSE IF t["type"] = "page" /\ ~HasKey(t, "title") THEN "title"
    ELSE IF t["type"] = "page" /\ ~HasKey(t, "url") THEN "url"
    ELSE MissingKey(Tail(infos))

SimpleFinish(op, ret) == [op EXCEPT !.pc = "done", !.phase = "none", !.ret = ret]

SimpleGoto(op, pc) == [op EXCEPT !.pc = pc, !.phase = "alloc"]

\* "except Exception as e: return json.dumps({'error': str(e)})"
SimpleExcept(op, out) == SimpleFinish(op, ErrorResult(out.msg))

\* "await ws.close()": the connection is closed and the operation is
\* suspended in the close, with ret the value it returns when it is resumed
SimpleClose(op, ret) ==
    [op EXCEPT !.pc = "closing", !.phase = "close", !.ws = "closed", !.ret = ret]

\* the operation after one of its commands returned value; the last command
\* is followed by "await ws.close()"
SimpleAfterReturn(op, value) ==
    CASE op.pc = "getTargets" ->
            LET infos == Get(value, "targetInfos", <<>>) IN
            IF TabsRaises(infos)
            THEN SimpleExcept(op, Raise("KeyError", <<"'", MissingKey(infos), "'">>))
            ELSE SimpleClose(op, ("tabs" :> SimpleTabs(infos)))
      [] op.pc = "attach" ->
            SimpleGoto([op EXCEPT !.session_id = Get(value, "sessionId", NoneSession)],
                       "getDocument")
      [] op.pc = "getDocument" ->
            SimpleGoto([op EXCEPT !.node_id =
                           Get(Get(value, "root", EmptyDict), "nodeId", NoneNode)],
                       "getOuterHTML")
      [] op.pc = "getOuterHTML" ->
            SimpleGoto([op EXCEPT !.html = Get(value, "outerHTML", "")], "detach")
      [] op.pc = "detach" ->
            SimpleClose(op, ("targetId" :> op.target) @@ ("html" :> op.html))

\* the operation after one of its commands ended with outcome out
SimpleAfter(op, out) ==
    IF out.tag = "raise" THEN SimpleExcept(op, out)
    ELSE SimpleAfterReturn(op, out.value)

\* a send_cdp_command that numbers the commands of each connection from 1
SimpleSend_OwnCounter(op, counter, sent) ==
    IF op.phase # "alloc" THEN [op |-> op, counter |-> counter, sent |-> sent]
    ELSE LET id      == op.message_id + 1
             sending == [op EXCEPT !.message_id = id, !.polls = 0]
         IN  IF op.ws = "open"
             THEN [op      |-> [sending EXCEPT !.phase = "poll"],
                   counter |-> counter,
                   sent    |-> Append(sent, SimpleEnvelope(sending))]
             ELSE [op      |-> SimpleAfter(sending, ConnectionClosed),
                   counter |-> counter,
                   sent    |-> sent]

\* send_cdp_command up to its first look at the response table: the id is
\* allocated and the command is written; or, on a connection the endpoint
\* has closed, "await ws.send" raises after the id was allocated and the
\* operation's except clause returns the error
SimpleSend(op, counter, sent) ==
    IF op.phase # "alloc" THEN [op |-> op, counter |-> counter, sent |-> sent]
    ELSE LET id      == NextId(counter)
             sending == [op EXCEPT !.message_id = id, !.polls = 0]
         IN  IF op.ws = "open"
             THEN [op      |-> [sending EXCEPT !.phase = "poll"],
                   counter |-> id,
                   sent    |-> Append(sent, SimpleEnvelope(sending))]
             ELSE [op      |-> SimpleAfter(sending, ConnectionClosed),
                   counter |-> id,
                   sent    |-> sent]

\* an operation is invoked: connect_to_chrome has returned a connection or
\* None, the listener task is created and the first command is sent
SimpleCall(o, kind, connected) ==
    /\ simple_ops[o].pc = "idle"
    /\ LET op   == [simple_ops[o] EXCEPT !.kind = kind]
           next == IF connected
                   THEN SimpleGoto([op EXCEPT !.ws = "open", !.listener = "running"],
                                   FirstCommand(kind))
                   ELSE SimpleFinish(op, ErrorResult(<<"Could not connect to Chrome">>))
           run  == SimpleSend(next, simple_message_id, simple_wire)
       IN /\ simple_ops' = [simple_ops EXCEPT ![o] = run.op]
          /\ simple_message_id' = run.counter
          /\ simple_wire' = run.sent
          /\ simple_trace' = Written(simple_trace, o, simple_wire, run.sent)
    /\ UNCHANGED <<simple_responses, simple_completed>>
    /\ UNCHANGED <<server_vars, reply, teardown, config_vars>>

\* a waiting loop without a bound, as server.py has it
SimpleCheck_Unbounded(o) ==
    /\ simple_ops[o].phase = "poll"
    /\ simple_ops[o].message_id \notin DOMAIN simple_responses
    /\ UNCHANGED vars

\* one pass of "for _ in range(100)": the response is there and is popped,
\* or the caller sleeps
SimpleCheck(o) ==
    /\ simple_ops[o].phase = "poll"
    /\ simple_ops[o].polls < PollLimit
    /\ LET op == simple_ops[o] IN
       IF op.message_id \in DOMAIN simple_responses
       THEN LET response == simple_responses[op.message_id]
                out      == SimpleResolve(response)
                run      == SimpleSend(SimpleAfter(op, out), simple_message_id,
                                       simple_wire)
            IN /\ simple_responses' = Pop(simple_responses, op.message_id)
               /\ simple_completed' = simple_completed \cup
                      {[id |-> op.message_id, response |-> response, out |-> out]}
               /\ simple_ops' = [simple_ops EXCEPT ![o] = run.op]
               /\ simple_message_id' = run.counter
               /\ simple_wire' = run.sent
               /\ simple_trace' = Written(simple_trace, o, simple_wire, run.sent)
       ELSE /\ simple_ops' = [simple_ops EXCEPT ![o].polls = @ + 1]
            /\ UNCHANGED <<simple_responses, simple_completed,
                           simple_message_id, simple_wire, simple_trace>>
    /\ UNCHANGED <<server_vars, reply, teardown, config_vars>>

\* "raise TimeoutError(f'No response for command {method}')"
SimpleTimeoutError(op) ==
    Raise("TimeoutError", <<"No response for command ">> \o MethodOf(op.pc))

\* the loop is exhausted: TimeoutError, caught by the operation
SimpleTimeout(o) ==
    /\ simple_ops[o].phase = "poll"
    /\ simple_ops[o].polls = PollLimit
    /\ simple_ops' = [simple_ops EXCEPT ![o] =
           SimpleAfter(@, SimpleTimeoutError(@))]
    /\ UNCHANGED <<simple_message_id, simple_responses, simple_wire,
                   simple_completed, simple_trace>>
    /\ UNCHANGED <<server_vars, reply, teardown, config_vars>>

\* the endpoint (or the network) closes the connection of operation o
SimpleTransportLost(o) ==
    /\ simple_ops[o].ws = "open"
    /\ simple_ops' = [simple_ops EXCEPT ![o].ws = "lost"]
    /\ UNCHANGED <<simple_message_id, simple_responses, simple_wire,
                   simple_completed, simple_trace>>
    /\ UNCHANGED <<server_vars, reply, teardown, config_vars>>

\* The connection is closed, by the operation's ws.close() or by the
\* endpoint, and the event loop resumes the listen_for_messages task of
\* operation o: "async for message in ws" ends and with it the task.  The
\* operation is resumed in a wake-up of its own, before this one or after
\* it.
SimpleListenerEnds(o) ==
    /\ simple_ops[o].ws \in {"closed", "lost"}
    /\ simple_ops[o].listener = "running"
    /\ simple_ops' = [simple_ops EXCEPT ![o].listener = "finished"]
    /\ UNCHANGED <<simple_message_id, simple_responses, simple_wire,
                   simple_completed, simple_trace>>
    /\ UNCHANGED <<server_vars, reply, teardown, config_vars>>

\* ws.close() has returned: the event loop resumes the operation, which
\* returns its result
SimpleReturn(o) ==
    /\ simple_ops[o].pc = "closing"
    /\ simple_ops' = [simple_ops EXCEPT ![o] = SimpleFinish(@, @.ret)]
    /\ UNCHANGED <<simple_message_id, simple_responses, simple_wire,
                   simple_completed, simple_trace>>
    /\ UNCHANGED <<server_vars, reply, teardown, config_vars>>

\* one iteration of "async for message in ws" in the listen_for_messages
\* task of operation o: json.loads or the test of "id" may raise, which the
\* except clause inside the loop catches
listen_for_messages(o, msg) ==
    /\ simple_ops[o].listener = "running"
    /\ simple_responses' =
          IF msg.kind = "object" /\ HasKey(msg.data, "id")
          THEN Put(simple_responses, msg.data["id"], msg.data)
          ELSE simple_responses
    /\ simple_trace' =
          IF msg.kind = "object" /\ HasKey(msg.data, "id")
          THEN [simple_trace EXCEPT
                   !.stored = @ \cup {[conn |-> o, frame |-> msg.data]}]
          ELSE simple_trace
    /\ UNCHANGED <<simple_message_id, simple_ops, simple_wire, simple_completed>>
    /\ UNCHANGED <<lifespan, state, transport, listener, _cdp_message_id,
                   _cdp_responses, _cdp_events, ops, wire, delivered, completed,
                   arrived, reply, teardown, config_vars>>

\* the endpoint answers the command an operation is waiting for, on that
\* operation's connection
SimpleAnswer(o, i, body) ==
    /\ simple_ops[o].phase = "poll"
    /\ simple_ops[o].ws = "open"
    /\ simple_wire[i]["id"] = simple_ops[o].message_id
    /\ simple_trace.sent[i] = o
    /\ simple_ops[o].message_id \notin DOMAIN simple_responses
    /\ listen_for_messages(o, Response(simple_wire[i]["id"], body))
    /\ UNCHANGED <<inbound, last_message>>

SimpleNext ==
    \/ \E kind \in SimpleKinds, connected \in BOOLEAN : SimpleCall(1, kind, connected)
    \/ SimpleCheck(1)
    \/ SimpleTimeout(1)
    \/ SimpleReturn(1)
    \/ SimpleListenerEnds(1)
    \/ SimpleTransportLost(1)
    \/ \E i \in 1..Len(simple_wire) : \E body \in Answers(simple_wire[i]) :
          SimpleAnswer(1, i, body)

-----------------------------------------------------------------------------
(* internal/system_config.py: M4MaxConfig *)

\* 1024 * 1024 * 1024 bytes.  Byte counts are kept in units of 2^20 bytes,
\* which divides every byte count of the class: 128 * 1024^3 is beyond the
\* integers TLC computes with.
GiB == 1024

\* the class attributes the dataclass declares; an instance that has not
\* assigned an attribute reads it from here
ClassDefaults ==
    [model_name         |-> "MacBook Pro",
     model_identifier   |-> "Mac16,5",
     model_number       |-> "Z1FW00086LL/A",
     chip               |-> "Apple M4 Max",
     performance_cores  |-> 12,
     efficiency_cores   |-> 4,
     total_cores        |-> 16,
     memory_gb          |-> 128,
     memory_bytes       |-> 128 * GiB,
     cache_limit_bytes  |-> 20 * GiB,
     firmware_version   |-> "11881.81.2",
     os_loader_version  |-> "11881.81.2"]

Max(a, b) == IF a >= b THEN a ELSE b

\* a constructor that splits the host's CPUs without the floor of one
InstanceDict_NoFloor(cpus) ==
    [performance_cores  |-> cpus \div 2,
     efficiency_cores   |-> cpus - (cpus \div 2),
     cache_limit_bytes  |-> GiB,
     memory_limit_bytes |-> 8 * GiB,
     memory_threshold   |-> "0.8"]

\* the attributes M4MaxConfig.__init__ assigns on a host with cpus CPUs;
\* the class defines __init__ itself, so the dataclass generates none
InstanceDict(cpus) ==
    LET performance_cores == Max(1, cpus \div 2) IN
    [performance_cores  |-> performance_cores,
     efficiency_cores   |-> Max(1, cpus - performance_cores),
     cache_limit_bytes  |-> GiB,
     memory_limit_bytes |-> 8 * GiB,
     memory_threshold   |-> "0.8"]

\* attribute lookup on an instance: its own dict, then the class
M4MaxConfig(cpus) == InstanceDict(cpus) @@ ClassDefaults

\* no instance yet
NoConfig == EmptyDict

\* the debug servers run without system_config; the host's CPU count is
\* that of this run
Unconfigured(cpus) ==
    /\ cpu_count \in cpus
    /\ config = NoConfig

\* "M4MaxConfig()"
Construct ==
    /\ config = NoConfig
    /\ config' = M4MaxConfig(cpu_count)
    /\ UNCHANGED <<server_vars, simple_vars, reply, teardown, cpu_count>>

-----------------------------------------------------------------------------
(* The server: app_lifespan, the listener, the operations, the endpoint *)

Init ==
    /\ lifespan = "startup"
    /\ teardown = NoTeardown
    /\ state = EmptyState
    /\ transport = "none"
    /\ listener = "none"
    /\ _cdp_message_id = 0
    /\ _cdp_responses = EmptyDict
    /\ _cdp_events = EmptyDict
    /\ ops = [o \in Ops |-> IdleOp(o)]
    /\ wire = <<>>
    /\ inbound = 0
    /\ last_message = Message("invalid", EmptyDict)
    /\ delivered = {}
    /\ completed = {}
    /\ arrived = <<>>
    /\ SimpleIdle
    /\ Unconfigured({1})

Next ==
    \/ \E outcome \in ConnectOutcomes : Connect(outcome)
    \/ Exit
    \/ ListenerCancelled
    \/ AwaitListener
    \/ CloseTransport
    \/ TransportLost
    \/ ListenerEnds
    \/ \E o \in Ops, kind \in Kinds : Call(o, kind, MaxId)
    \/ \E o \in Ops : Poll(o, MaxId)
    \/ \E i \in 1..Len(wire) : \E body \in Answers(wire[i]) : Answer(i, body)

Spec == Init /\ [][Next]_vars

\* app_lifespan from startup to its end, with one operation running
LifespanNext ==
    \/ \E outcome \in ConnectOutcomes : Connect(outcome)
    \/ \E exc \in BodyExceptions : BodyRaises(exc)
    \/ Finalize
    \/ Exit
    \/ ListenerCancelled
    \/ AwaitListener
    \/ CloseTransport
    \/ TransportLost
    \/ ListenerEnds
    \/ \E kind \in Kinds : Call(1, kind, MaxId)
    \/ Poll(1, MaxId)
    \/ \E i \in 1..Len(wire) : \E body \in Answers(wire[i]) : Answer(i, body)

LifespanSpec == Init /\ [][LifespanNext]_vars

\* the simple variant, run as its own program
SimpleSpec == Init /\ [][SimpleNext]_vars

\* The event loop resumes a caller when its sleep of 0.01 s is over.
SimpleFairSpec ==
    /\ SimpleSpec
    /\ WF_vars(SimpleCheck(1))
    /\ WF_vars(SimpleTimeout(1))
    /\ WF_vars(SimpleReturn(1))
    /\ WF_vars(SimpleListenerEnds(1))

\* The event loop runs every task that is ready: an operation whose response
\* has been stored is resumed, and the finally block of app_lifespan runs to
\* its end.  Nothing obliges the endpoint to answer, the connection to stay
\* open, or the application to exit.
FairSpec ==
    /\ Spec
    /\ \A o \in Ops : WF_vars(Poll(o, MaxId))
    /\ WF_vars(ListenerEnds)
    /\ WF_vars(ListenerCancelled)
    /\ WF_vars(AwaitListener)
    /\ WF_vars(CloseTransport)

-----------------------------------------------------------------------------
(* A single operation on an open connection, run to its end *)

\* the state app_lifespan yields after a successful connect
Serving ==
    /\ lifespan = "yielded"
    /\ teardown = Yield(NoTeardown)
    /\ state = [cdp_ws |-> "ws", cdp_listener_task |-> "task"]
    /\ transport = "open"
    /\ listener = "running"

SoloInit ==
    /\ Serving
    /\ _cdp_message_id = 0
    /\ _cdp_responses = EmptyDict
    /\ _cdp_events = EmptyDict
    /\ ops = [o \in Ops |-> IdleOp(o)]
    /\ wire = <<>>
    /\ inbound = 0
    /\ last_message = Message("invalid", EmptyDict)
    /\ delivered = {}
    /\ completed = {}
    /\ arrived = <<>>
    /\ SimpleIdle
    /\ Unconfigured({1})

SoloNext ==
    \/ \E kind \in Kinds : Call(1, kind, MaxSoloId)
    \/ Poll(1, MaxSoloId)
    \/ \E i \in 1..Len(wire) : \E body \in Answers(wire[i]) : Answer(i, body)
    \/ TransportLost
    \/ ListenerEnds

SoloSpec == SoloInit /\ [][SoloNext]_vars

-----------------------------------------------------------------------------
(* The listener alone, fed every shape of inbound message *)

\* event frames already recorded when the run starts: none, or one short of
\* the retention cap
Prefills == {0, RetentionCap - 1}

Stamped(n) == ("timestamp" :> n)

Prefilled(k) ==
    [n \in 1..k |-> Event(Method("Network", "dataReceived"), Stamped(n)).data]

\* the messages the endpoint may send as message number n
ListenerMessages(n) ==
    {Event(Method("Network", "requestWillBeSent"), Stamped(n)),
     Event(Method("Console", "messageAdded"), Stamped(n)),
     Event(<<"heartbeat">>, Stamped(n)),
     Response(1, WithResult(Stamped(n))),
     Response(2, WithError(<<"refused">>)),
     Message("object", ("id" :> 1) @@ ("method" :> Method("Network", "loadingFinished"))
                           @@ ("params" :> Stamped(n))),
     Message("object", ("params" :> Stamped(n))),
     Message("badfield", EmptyDict),
     Message("nonobject", EmptyDict),
     Message("invalid", EmptyDict)}

ListenerInit ==
    /\ Serving
    /\ _cdp_message_id = 0
    /\ _cdp_responses = EmptyDict
    /\ \E k \in Prefills :
          /\ _cdp_events = IF k = 0 THEN EmptyDict ELSE ("Network" :> Prefilled(k))
          /\ arrived = Prefilled(k)
          /\ inbound = k
    /\ ops = [o \in Ops |-> IdleOp(o)]
    /\ wire = <<>>
    /\ last_message = Message("invalid", EmptyDict)
    /\ delivered = {}
    /\ completed = {}
    /\ SimpleIdle
    /\ Unconfigured({1})

\* the listener consumes the next inbound message
Consume(msg) ==
    /\ \E k \in Prefills : inbound \in k..(k + ListenLimit - 1)
    /\ cdp_listener(msg)
    /\ inbound' = inbound + 1
    /\ last_message' = msg

ListenerNext == \E msg \in ListenerMessages(inbound + 1) : Consume(msg)

ListenerSpec == ListenerInit /\ [][ListenerNext]_vars

-----------------------------------------------------------------------------
(* The listener records events and the views are read *)

RequestParams(request_id, n) ==
    ("requestId" :> request_id) @@ ("timestamp" :> n) @@ ("type" :> "Document")
        @@ ("request" :> (("url" :> <<"http://x/", n>>) @@ ("method" :> "GET")))

ResponseParams(request_id, status) ==
    ("requestId" :> request_id)
        @@ ("response" :> (("status" :> status) @@ ("mimeType" :> "text/html")))

ConsoleParams(n) ==
    ("timestamp" :> n) @@ ("message" :> (("level" :> "error") @@ ("text" :> <<"log ", n>>)))

\* the event frames the endpoint may send as message number n: request R1
\* or R2 is sent, R1 is answered, an answer to R3 which was never sent, an
\* event without params, another Network event, console messages, and
\* events whose params or message is an array
ViewMessages(n) ==
    {Event(Method("Network", "requestWillBeSent"), RequestParams("R1", n)),
     Event(Method("Network", "requestWillBeSent"), RequestParams("R2", n)),
     Event(Method("Network", "responseReceived"), ResponseParams("R1", 200)),
     Event(Method("Network", "responseReceived"), ResponseParams("R3", 404)),
     Message("object", ("method" :> Method("Network", "requestWillBeSent"))),
     Event(Method("Network", "loadingFinished"), ("requestId" :> "R1")),
     Event(Method("Network", "responseReceived"), JsonArray(<<n>>)),
     Event(Method("Console", "messageAdded"), ConsoleParams(n)),
     Event(Method("Console", "messageAdded"), ("message" :> JsonArray(<<"x">>)))}

ViewInit ==
    /\ ListenerInit
    /\ inbound = 0

ViewConsume(msg) ==
    /\ inbound < ViewLimit
    /\ cdp_listener(msg)
    /\ inbound' = inbound + 1
    /\ last_message' = msg

ViewNext ==
    \/ \E msg \in ViewMessages(inbound + 1) : ViewConsume(msg)
    \/ \E kind \in QueryKinds : Query(kind)

ViewSpec == ViewInit /\ [][ViewNext]_vars

-----------------------------------------------------------------------------
(* Both listeners receive well-formed and malformed messages *)

\* the messages either endpoint may send as message number n: a text that
\* is not JSON, JSON that is not an object, an object whose id or method
\* cannot be used, a response and an event
FrameMessages(n) ==
    {Message("invalid", EmptyDict),
     Message("nonobject", EmptyDict),
     Message("badfield", EmptyDict),
     Response(1, WithResult(Stamped(n))),
     Event(Method("Network", "requestWillBeSent"), Stamped(n))}

FrameConsume(msg) ==
    /\ inbound < FrameLimit
    /\ cdp_listener(msg)
    /\ inbound' = inbound + 1
    /\ last_message' = msg

SimpleConsume(o, msg) ==
    /\ inbound < FrameLimit
    /\ listen_for_messages(o, msg)
    /\ inbound' = inbound + 1
    /\ last_message' = msg

FrameNext ==
    \/ \E msg \in FrameMessages(inbound + 1) : FrameConsume(msg)
    \/ \E msg \in FrameMessages(inbound + 1) : SimpleConsume(1, msg)
    \/ \E connected \in BOOLEAN : SimpleCall(1, "list_tabs", connected)

FrameSpec == ViewInit /\ [][FrameNext]_vars

-----------------------------------------------------------------------------
(* list_tabs of either program, for every list of targets *)

\* the targets the endpoint may list
Targets ==
    {TargetInfo("T1", "page"), TargetInfo("T2", "page"), TargetInfo("W1", "worker")}

RECURSIVE TargetLists(_)
TargetLists(n) ==
    IF n = 0 THEN {<<>>}
    ELSE TargetLists(n - 1) \cup
         {Append(l, t) : l \in {x \in TargetLists(n - 1) : Len(x) = n - 1}, t \in Targets}

\* the answers to Target.getTargets
TabsAnswers == {WithResult(("targetInfos" :> l)) : l \in TargetLists(TabsLimit)}

\* one run is a run of server.py or a run of simple_debug.py
TabsNext ==
    \/ simple_ops[1].pc = "idle" /\ Call(1, "list_tabs", MaxSoloId)
    \/ simple_ops[1].pc = "idle" /\ Poll(1, MaxSoloId)
    \/ /\ simple_ops[1].pc = "idle"
       /\ \E i \in 1..Len(wire) : \E body \in TabsAnswers : Answer(i, body)
    \/ ops[1].pc = "idle" /\ SimpleCall(1, "list_tabs", TRUE)
    \/ ops[1].pc = "idle" /\ SimpleCheck(1)
    \/ ops[1].pc = "idle" /\ SimpleTimeout(1)
    \/ ops[1].pc = "idle" /\ SimpleReturn(1)
    \/ ops[1].pc = "idle" /\ SimpleListenerEnds(1)
    \/ /\ ops[1].pc = "idle"
       /\ \E i \in 1..Len(simple_wire) : \E body \in TabsAnswers :
             SimpleAnswer(1, i, body)

TabsSpec == SoloInit /\ [][TabsNext]_vars

-----------------------------------------------------------------------------
(* M4MaxConfig constructed on hosts of every CPU count *)

ConfigInit ==
    /\ lifespan = "startup"
    /\ teardown = NoTeardown
    /\ state = EmptyState
    /\ transport = "none"
    /\ listener = "none"
    /\ _cdp_message_id = 0
    /\ _cdp_responses = EmptyDict
    /\ _cdp_events = EmptyDict
    /\ ops = [o \in Ops |-> IdleOp(o)]
    /\ wire = <<>>
    /\ inbound = 0
    /\ last_message = Message("invalid", EmptyDict)
    /\ delivered = {}
    /\ completed = {}
    /\ arrived = <<>>
    /\ SimpleIdle
    /\ Unconfigured(1..MaxCpus)

ConfigNext == Construct

ConfigSpec == ConfigInit /\ [][ConfigNext]_vars

-----------------------------------------------------------------------------
(* Concurrent callers and the listener on a connection that stays open *)

WaitNext ==
    \/ \E o \in Ops, kind \in Kinds : Call(o, kind, MaxId)
    \/ \E o \in Ops : Poll(o, MaxId)
    \/ \E i \in 1..Len(wire) : \E body \in Answers(wire[i]) : Answer(i, body)

\* The event loop resumes a caller whose sleep is over: a caller whose
\* response has been stored takes it.  Nothing obliges the endpoint to
\* answer.
WaitSpec ==
    /\ SoloInit
    /\ [][WaitNext]_vars
    /\ \A o \in Ops : WF_vars(Poll(o, MaxId))

-----------------------------------------------------------------------------
(* The listener is cancelled after frames of every shape *)

ShutdownNext ==
    \/ \E msg \in FrameMessages(inbound + 1) : FrameConsume(msg)
    \/ Exit
    \/ ListenerCancelled
    \/ AwaitListener
    \/ CloseTransport
    \/ TransportLost
    \/ ListenerEnds

\* the event loop runs the listener task and app_lifespan when they are
\* ready
ShutdownSpec ==
    /\ ViewInit
    /\ [][ShutdownNext]_vars
    /\ WF_vars(ListenerEnds)
    /\ WF_vars(ListenerCancelled)
    /\ WF_vars(AwaitListener)
    /\ WF_vars(CloseTransport)

-----------------------------------------------------------------------------
(* Several sessions open at once on one connection *)

SessionKinds == {"get_tab_content", "inspect_element"}

SessionNext ==
    \/ \E o \in Ops, kind \in SessionKinds : Call(o, kind, MaxSessionId)
    \/ \E o \in Ops : Poll(o, MaxSessionId)
    \/ \E i \in 1..Len(wire) : \E body \in Answers(wire[i]) : Answer(i, body)

SessionSpec == SoloInit /\ [][SessionNext]_vars

-----------------------------------------------------------------------------
(* The views are read while responses and events arrive *)

\* the frames the endpoint may send as message number n: a request is sent
\* and answered, console messages of which one has an array for its
\* message, and the response to a command
QueryMessages(n) ==
    {Event(Method("Network", "requestWillBeSent"), RequestParams("R1", n)),
     Event(Method("Network", "responseReceived"), ResponseParams("R1", 200)),
     Event(Method("Console", "messageAdded"), ConsoleParams(n)),
     Event(Method("Console", "messageAdded"), ("message" :> JsonArray(<<"x">>))),
     Response(1, WithResult(Stamped(n)))}

QueryNext ==
    \/ \E msg \in QueryMessages(inbound + 1) : ViewConsume(msg)
    \/ \E kind \in QueryKinds : Query(kind)

QuerySpec == ViewInit /\ [][QueryNext]_vars

-----------------------------------------------------------------------------
(* Concurrent operations of simple_debug.py: a connection and a listener  *)
(* each, one id counter and one response table between them               *)

\* operation o looks at the table and takes its response.  The looks that
\* find nothing change only the operation's count of looks and are left
\* to the runs of a single operation.
ConcurrentCheck(o) ==
    /\ simple_ops[o].message_id \in DOMAIN simple_responses
    /\ SimpleCheck(o)
    /\ LET op == simple_ops[o] IN
       SimpleAfter(op, SimpleResolve(simple_responses[op.message_id])).phase
           = "alloc" => simple_message_id < MaxSimpleId

ConcurrentNext ==
    \/ \E o \in Ops, kind \in SimpleKinds, connected \in BOOLEAN :
          /\ connected => simple_message_id < MaxSimpleId
          /\ SimpleCall(o, kind, connected)
    \/ \E o \in Ops : ConcurrentCheck(o)
    \/ \E o \in Ops : SimpleReturn(o)
    \/ \E o \in Ops : SimpleListenerEnds(o)
    \/ \E o \in Ops : SimpleTransportLost(o)
    \/ \E o \in Ops : \E i \in 1..Len(simple_wire) :
          \E body \in Answers(simple_wire[i]) : SimpleAnswer(o, i, body)

ConcurrentSpec == Init /\ [][ConcurrentNext]_vars

-----------------------------------------------------------------------------
(* An event domain is enabled on every page target *)

\* the targets the endpoint may list: pages, a worker, and a worker listed
\* without its id
EnableTargets == Targets \cup {("type" :> "worker")}

\* the lists of at most n of them, no target listed twice
RECURSIVE EnableLists(_)
EnableLists(n) ==
    IF n = 0 THEN {<<>>}
    ELSE EnableLists(n - 1) \cup
         UNION {{Append(l, t) : t \in EnableTargets \ {l[i] : i \in 1..Len(l)}} :
                   l \in {x \in EnableLists(n - 1) : Len(x) = n - 1}}

\* the answers to a command of the two tools
EnableAnswers(command) ==
    IF command["method"] = Method("Target", "getTargets")
    THEN {WithResult(("targetInfos" :> l)) : l \in EnableLists(TabsLimit)}
             \cup {WithError(<<"refused ", command["id"]>>)}
    ELSE Answers(command)

EnableNext ==
    \/ \E kind \in EnableKinds : Call(1, kind, MaxSoloId)
    \/ Poll(1, MaxSoloId)
    \/ \E i \in 1..Len(wire) : \E body \in EnableAnswers(wire[i]) : Answer(i, body)
    \/ TransportLost
    \/ ListenerEnds

EnableSpec == SoloInit /\ [][EnableNext]_vars

-----------------------------------------------------------------------------
(* The network view is read while the Network bucket is at its cap *)

\* the events recorded when the run starts: the sending of request R1, then
\* data events up to one short of the retention cap
Windowed ==
    [n \in 1..(RetentionCap - 1) |->
        IF n = 1
        THEN Event(Method("Network", "requestWillBeSent"), RequestParams("R1", n)).data
        ELSE Event(Method("Network", "dataReceived"), Stamped(n)).data]

\* the event frames the endpoint may send as message number n: R1 is
\* answered or sent again, R2 is sent, a data event, a console message
WindowMessages(n) ==
    {Event(Method("Network", "responseReceived"), ResponseParams("R1", 200)),
     Event(Method("Network", "requestWillBeSent"), RequestParams("R1", n)),
     Event(Method("Network", "requestWillBeSent"), RequestParams("R2", n)),
     Event(Method("Network", "dataReceived"), Stamped(n)),
     Event(Method("Console", "messageAdded"), ConsoleParams(n))}

WindowInit ==
    /\ Serving
    /\ _cdp_message_id = 0
    /\ _cdp_responses = EmptyDict
    /\ _cdp_events = ("Network" :> Windowed)
    /\ arrived = Windowed
    /\ inbound = 0
    /\ ops = [o \in Ops |-> IdleOp(o)]
    /\ wire = <<>>
    /\ last_message = Message("invalid", EmptyDict)
    /\ delivered = {}
    /\ completed = {}
    /\ SimpleIdle
    /\ Unconfigured({1})

WindowNext ==
    \/ \E msg \in WindowMessages(RetentionCap + inbound) : ViewConsume(msg)
    \/ \E kind \in QueryKinds : Query(kind)

WindowSpec == WindowInit /\ [][WindowNext]_vars

-----------------------------------------------------------------------------
(* Claims *)

DetachMethod == Method("Target", "detachFromTarget")

\* the caller's outcome is the one the frame carries: its error raised, or
\* its result (an empty dict when it has none) returned
Carries(frame, out) ==
    IF "error" \in DOMAIN frame
    THEN /\ out.tag = "raise"
         /\ out.msg = <<"CDP Error: ">> \o frame["error"]["message"]
    ELSE /\ out.tag = "return"
         /\ out.value = (IF "result" \in DOMAIN frame THEN frame["result"] ELSE EmptyDict)

\* C1: every command handed back to its caller was handed the result, or the
\* error, of a response frame the endpoint sent under the id that command
\* was sent with, whatever the order the responses arrived in.
C1_OwnResponse ==
    \A c \in completed :
        \E f \in delivered : f["id"] = c.id /\ Carries(f, c.out)

\* a later command has completed while an earlier one, sent by another
\* caller, is still waiting for its answer
C1_Witness_OutOfOrder ==
    \E o \in Ops, c \in completed :
        /\ ops[o].phase = "poll"
        /\ ops[o].message_id < c.id
        /\ ~Answered(ops[o].message_id)

\* C2: the ids of the commands written to the connection, root and
\* session-scoped alike, are strictly increasing in the order they were
\* sent, and no two operations hold the same id.
C2_IdsStrictlyIncrease ==
    /\ \A i, j \in 1..Len(wire) : i < j => wire[i]["id"] < wire[j]["id"]
    /\ \A i \in 1..Len(wire) : wire[i]["id"] \in 1.._cdp_message_id
    /\ \A o1, o2 \in Ops :
          (o1 # o2 /\ ops[o1].message_id # 0) =>
              ops[o1].message_id # ops[o2].message_id

\* two operations have commands in flight at once
C2_Witness_TwoCallers ==
    /\ \E o1, o2 \in Ops :
          o1 # o2 /\ ops[o1].phase = "poll" /\ ops[o2].phase = "poll"
    /\ Len(wire) >= 2

\* C4 (as claimed): an operation that attached a session returns only after
\* a detach command for that session was sent, also when a command of its
\* body failed.  Stated for the runs in which the connection is still open
\* at the return, where nothing stands in the way of the detach.
C4_DetachBeforeReturn ==
    \A o \in Ops :
        (ops[o].pc = "done" /\ ops[o].session_id # NoSession /\ transport = "open") =>
            \E i \in 1..Len(wire) :
                /\ wire[i]["method"] = DetachMethod
                /\ wire[i]["params"] = ("sessionId" :> ops[o].session_id)

\* events of one category, in arrival order
BeforeFirstDot(method) ==
    IF method = <<>> \/ method[1] = "." THEN "" ELSE method[1]

ArrivedIn(category) ==
    SelectSeq(arrived, LAMBDA d : BeforeFirstDot(d["method"]) = category)

CategoriesSeen == {BeforeFirstDot(arrived[n]["method"]) : n \in 1..Len(arrived)}

\* C5: no event bucket ever holds more than 1000 records.
C5_BucketWithinCap ==
    \A c \in DOMAIN _cdp_events : Len(_cdp_events[c]) <= 1000

\* the 1001st event of a category has been recorded
C5_Witness_AtCap ==
    \E c \in DOMAIN _cdp_events :
        Len(_cdp_events[c]) = 1000 /\ Len(ArrivedIn(c)) = 1001

\* C6: a bucket holds exactly the most recent min(n, 1000) of the n events
\* of its category, oldest first.
C6_MostRecentInOrder ==
    /\ DOMAIN _cdp_events = CategoriesSeen
    /\ \A c \in CategoriesSeen :
          LET a    == ArrivedIn(c)
              n    == Len(a)
              kept == IF n < 1000 THEN n ELSE 1000
          IN  _cdp_events[c] = SubSeq(a, n - kept + 1, n)

\* two events have been evicted: the bucket starts at the third arrival
C6_Witness_Evicted ==
    \E c \in DOMAIN _cdp_events :
        /\ Len(ArrivedIn(c)) = 1002
        /\ _cdp_events[c][1] = ArrivedIn(c)[3]
        /\ _cdp_events[c][1000] = ArrivedIn(c)[1002]

BucketsChanged ==
    {c \in DOMAIN _cdp_events \cup DOMAIN _cdp_events' :
        Get(_cdp_events, c, <<>>) # Get(_cdp_events', c, <<>>)}

\* C7: a frame with an id goes to the response table only, a frame with a
\* method and no id is appended to exactly one bucket and the response
\* table is left alone, a frame with neither changes nothing.
C7_RoutedOneWay ==
    [][ (inbound' = inbound + 1 /\ last_message'.kind = "object") =>
        LET data == last_message'.data IN
        IF "id" \in DOMAIN data
        THEN /\ _cdp_events' = _cdp_events
             /\ DOMAIN _cdp_responses' = DOMAIN _cdp_responses \cup {data["id"]}
             /\ \A k \in DOMAIN _cdp_responses' :
                   _cdp_responses'[k] =
                       IF k = data["id"] THEN data ELSE _cdp_responses[k]
        ELSE IF "method" \in DOMAIN data
        THEN /\ _cdp_responses' = _cdp_responses
             /\ Cardinality(BucketsChanged) = 1
             /\ \A c \in BucketsChanged :
                   _cdp_events'[c][Len(_cdp_events'[c])] = data
        ELSE /\ _cdp_responses' = _cdp_responses
             /\ _cdp_events' = _cdp_events
      ]_vars

\* a frame carrying both an id and a method was consumed: it sits in the
\* response table and in no bucket
C7_Witness_IdAndMethod ==
    /\ last_message.kind = "object"
    /\ {"id", "method"} \subseteq DOMAIN last_message.data
    /\ last_message.data["id"] \in DOMAIN _cdp_responses
    /\ _cdp_responses[last_message.data["id"]] = last_message.data
    /\ \A c \in DOMAIN _cdp_events :
          \A n \in 1..Len(_cdp_events[c]) : _cdp_events[c][n] # last_message.data

\* C8: after a failed connect every operation returns the "not connected"
\* error in the step it is invoked in: none waits, and no command is sent.
C8_NotConnectedAtOnce ==
    (lifespan # "startup" /\ state.cdp_ws = "None") =>
        /\ wire = <<>>
        /\ _cdp_message_id = 0
        /\ \A o \in Ops :
              /\ ops[o].pc \in {"idle", "done"}
              /\ ops[o].pc = "done" =>
                    ops[o].ret = ("error" :> <<"Not connected to Chrome.">>)

\* the connect failed and operations of two kinds have returned
C8_Witness_Degraded ==
    /\ state.cdp_ws = "None"
    /\ \E o1, o2 \in Ops :
          /\ ops[o1].pc = "done" /\ ops[o2].pc = "done"
          /\ ops[o1].kind = "list_tabs" /\ ops[o2].kind = "inspect_element"

\* C9 (as claimed): whatever the connect does, app_lifespan reaches its
\* yield: startup is never aborted by the connect's exception.
C9_StartupNeverAborts == lifespan # "aborted"

\* C3 (as claimed): a caller whose command is still unanswered when the
\* connection closes eventually returns.
C3_ClosedCallersReturn ==
    \A o \in Ops :
        (/\ ops[o].phase = "poll"
         /\ ops[o].message_id \notin DOMAIN _cdp_responses
         /\ transport = "closed")
            ~> (ops[o].pc = "done")

\* the caller's failure carries the remote message
CarriesMessage(out, message) ==
    /\ out.tag = "raise"
    /\ Len(out.msg) >= Len(message)
    /\ SubSeq(out.msg, Len(out.msg) - Len(message) + 1, Len(out.msg)) = message

\* C10 (as claimed): in both variants a response frame with an error object
\* fails the command with the remote message; any other frame returns its
\* result, or an empty result when it has none.
C10_ErrorFailsElseResult ==
    \A c \in completed \cup simple_completed :
        IF "error" \in DOMAIN c.response
        THEN CarriesMessage(c.out, c.response["error"]["message"])
        ELSE /\ c.out.tag = "return"
             /\ c.out.value = (IF "result" \in DOMAIN c.response
                               THEN c.response["result"] ELSE EmptyDict)

\* C11 (as claimed): in server.py a command that is waiting on an open
\* connection stops waiting: its response is taken, or it fails with a
\* timeout.
C11_UnansweredTimesOut ==
    \A o \in Ops :
        (ops[o].phase = "poll" /\ transport = "open")
            ~> (ops[o].phase # "poll" \/ transport # "open")

SimpleUnanswered(op) ==
    /\ op.message_id # 0
    /\ \A c \in simple_completed : c.id # op.message_id

\* the error a send_cdp_command of simple_debug.py ends with when it has
\* waited for its 100 looks
TimedOutResults ==
    {("error" :> (<<"No response for command ">> \o m)) :
        m \in {Method("Target", "getTargets"),
               Method("Target", "attachToTarget"),
               Method("DOM", "getDocument"),
               Method("DOM", "getOuterHTML"),
               Method("Target", "detachFromTarget")}}

\* every send_cdp_command call of simple_debug.py that waits comes to an
\* end
SimpleWaitEnds ==
    \A o \in Ops : \A n \in 1..5 :
        (simple_ops[o].phase = "poll" /\ simple_ops[o].message_id = n)
            ~> (simple_ops[o].phase # "poll" \/ simple_ops[o].message_id # n)

\* C12 (as claimed): in simple_debug.py every send_cdp_command call ends,
\* and a call whose response was never taken from the table ends with the
\* timeout error after exactly 100 looks at the table.
C12_SimpleAlwaysTerminates ==
    /\ SimpleWaitEnds
    /\ [](\A o \in Ops :
            (simple_ops[o].pc = "done" /\ SimpleUnanswered(simple_ops[o])) =>
                /\ simple_ops[o].polls = 100
                /\ simple_ops[o].ret \in TimedOutResults)

\* the command with this id was written to a connection
WrittenId(id) == \E i \in 1..Len(simple_wire) : simple_wire[i]["id"] = id

\* C12 (amended): in simple_debug.py every send_cdp_command call ends.  A
\* call whose command was written and whose response was never taken from
\* the table ends with the timeout error after exactly 100 looks at the
\* table; a call whose command could not be written, the connection being
\* closed, ends with the error of the send and without a look.
C12_TerminatesAmended ==
    /\ SimpleWaitEnds
    /\ [](\A o \in Ops :
            (simple_ops[o].pc = "done" /\ SimpleUnanswered(simple_ops[o])) =>
                IF WrittenId(simple_ops[o].message_id)
                THEN /\ simple_ops[o].polls = 100
                     /\ simple_ops[o].ret \in TimedOutResults
                ELSE /\ simple_ops[o].polls = 0
                     /\ simple_ops[o].ws = "lost"
                     /\ simple_ops[o].ret = ErrorResult(ConnectionClosed.msg))

\* a call has timed out after an earlier call of the same operation was
\* answered
C12_Witness_TimedOut ==
    \E o \in Ops :
        /\ simple_ops[o].pc = "done"
        /\ simple_ops[o].polls = 100
        /\ simple_ops[o].message_id > 1
        /\ SimpleUnanswered(simple_ops[o])

\* the Network events the listener had recorded when the view was read
SeenNetwork ==
    SelectSeq(SubSeq(arrived, 1, reply.seen),
              LAMBDA e : BeforeFirstDot(e["method"]) = "Network")

NamesRequest(e, method, id) ==
    /\ e["method"] = <<"Network", ".", method>>
    /\ "params" \in DOMAIN e
    /\ "requestId" \in DOMAIN e["params"]
    /\ e["params"]["requestId"] = id

\* the place of the last request-sent event for id, 0 when there is none
LastSent(log, id) ==
    LET at == {k \in 1..Len(log) : NamesRequest(log[k], "requestWillBeSent", id)}
    IN  IF at = {} THEN 0 ELSE CHOOSE k \in at : \A j \in at : j <= k

AnswersAfter(log, id) ==
    {k \in 1..Len(log) :
        k > LastSent(log, id) /\ NamesRequest(log[k], "responseReceived", id)}

\* C13: get_network_requests returns no two records with the same request
\* id, and a record is "received" exactly when a responseReceived event for
\* its id was recorded after the last requestWillBeSent event for that id,
\* "pending" otherwise.
C13_StatusFollowsLastRequest ==
    (reply.op = "get_network_requests" /\ reply.out.tag = "return") =>
        LET requests == reply.out.value["requests"] IN
        /\ \A i, j \in 1..Len(requests) :
              i # j => requests[i]["requestId"] # requests[j]["requestId"]
        /\ \A i \in 1..Len(requests) :
              /\ LastSent(SeenNetwork, requests[i]["requestId"]) > 0
              /\ requests[i]["status"] =
                    IF AnswersAfter(SeenNetwork, requests[i]["requestId"]) # {}
                    THEN "received" ELSE "pending"

\* a request was sent, answered and sent again: its record is pending
\* although an answer for its id is among the recorded events
C13_Witness_SentAgain ==
    /\ reply.op = "get_network_requests"
    /\ reply.out.tag = "return"
    /\ \E i \in 1..Len(reply.out.value["requests"]) :
          LET r == reply.out.value["requests"][i] IN
          /\ r["status"] = "pending"
          /\ \E k \in 1..Len(SeenNetwork) :
                NamesRequest(SeenNetwork[k], "responseReceived", r["requestId"])

\* every recorded Network event has an object for its params
WellShaped(log) ==
    \A k \in 1..Len(log) :
        "params" \in DOMAIN log[k] => "[]" \notin DOMAIN log[k]["params"]

\* C14: a responseReceived event whose request id no requestWillBeSent
\* event named raises nothing and gets no record, and every record is made
\* of the events of its own request id alone: the url of the last request
\* sent and the status code of the last answer after it.
C14_OrphanResponseDropped ==
    (reply.op = "get_network_requests" /\ WellShaped(SeenNetwork)) =>
        /\ reply.out.tag = "return"
        /\ \A i \in 1..Len(reply.out.value["requests"]) :
              LET r    == reply.out.value["requests"][i]
                  sent == LastSent(SeenNetwork, r["requestId"])
                  got  == AnswersAfter(SeenNetwork, r["requestId"])
              IN  /\ sent > 0
                  /\ r["url"] = SeenNetwork[sent]["params"]["request"]["url"]
                  /\ r["timestamp"] = SeenNetwork[sent]["params"]["timestamp"]
                  /\ ("statusCode" \in DOMAIN r) = (got # {})
                  /\ \A k \in got :
                        (\A j \in got : j <= k) =>
                            r["statusCode"] =
                                SeenNetwork[k]["params"]["response"]["status"]

\* the view was read after an answer to R3, which was never sent, and an
\* answer to a request that was: one record, received with status 200
C14_Witness_Orphan ==
    /\ reply.op = "get_network_requests"
    /\ reply.out.tag = "return"
    /\ \E k \in 1..Len(SeenNetwork) :
          /\ NamesRequest(SeenNetwork[k], "responseReceived", "R3")
          /\ LastSent(SeenNetwork, "R3") = 0
    /\ Len(reply.out.value["requests"]) = 1
    /\ reply.out.value["requests"][1]["status"] = "received"
    /\ reply.out.value["requests"][1]["statusCode"] = 200

\* C15 (as claimed): no exception leaves an operation of the query surface:
\* each returns a payload or an {"error": message} result, whatever the
\* commands did and whatever the recorded events hold.
C15_NoExceptionEscapes ==
    /\ reply.out.tag = "return"
    /\ \A o \in Ops :
          ops[o].pc = "done" =>
              \/ DOMAIN ops[o].ret = {"error"}
              \/ "error" \notin DOMAIN ops[o].ret

\* the command sent under id
CommandOf(id) == wire[CHOOSE k \in 1..Len(wire) : wire[k]["id"] = id]

\* every command but the detach was answered with its proper result
BodySucceeded ==
    \A c \in completed :
        CommandOf(c.id)["method"] # DetachMethod =>
            /\ "result" \in DOMAIN c.response
            /\ c.response["result"] = ProperResult(CommandOf(c.id))

\* the detach was answered with an error
DetachFailed ==
    \E c \in completed :
        /\ CommandOf(c.id)["method"] = DetachMethod
        /\ "error" \in DOMAIN c.response

\* C16 (as claimed): when every command of the body of get_tab_content or
\* inspect_element succeeded and only the final detach failed, the
\* operation returns the body's result, not an error.
C16_DetachFailureNotEscalated ==
    \A o \in Ops :
        (/\ ops[o].pc = "done"
         /\ ops[o].kind \in {"get_tab_content", "inspect_element"}
         /\ BodySucceeded
         /\ DetachFailed) =>
            /\ "error" \notin DOMAIN ops[o].ret
            /\ ops[o].ret["outerHTML"] = "<html>"

\* app_lifespan has handed control back for good
Exited == lifespan \in {"complete", "aborted", "abandoned"}

\* C17 (as claimed): the finally block of app_lifespan never runs twice and
\* the connection is never closed twice, and when app_lifespan has been
\* left, the finally block has run once and a connection that was opened
\* has been closed once.
C17_TeardownExactlyOnce ==
    /\ teardown.runs <= 1
    /\ teardown.closes <= 1
    /\ Exited =>
          /\ teardown.runs = 1
          /\ teardown.closes = (IF state.cdp_ws # "None" THEN 1 ELSE 0)

Malformed == {"invalid", "nonobject", "badfield"}

\* C18: a message that is not JSON, or JSON that the loop body cannot use,
\* changes neither response table nor any event bucket and ends neither
\* listener; the response that comes after it is stored.
C18_MalformedFrameDropped ==
    [][ /\ (inbound' = inbound + 1 /\ last_message'.kind \in Malformed) =>
            /\ _cdp_responses' = _cdp_responses
            /\ _cdp_events' = _cdp_events
            /\ simple_responses' = simple_responses
            /\ listener' = "running"
            /\ \A o \in Ops : simple_ops'[o].listener = simple_ops[o].listener
        /\ (/\ inbound' = inbound + 1
            /\ last_message.kind \in Malformed
            /\ last_message'.kind = "object"
            /\ "id" \in DOMAIN last_message'.data) =>
               \/ Get(_cdp_responses', last_message'.data["id"], EmptyDict)
                     = last_message'.data
               \/ Get(simple_responses', last_message'.data["id"], EmptyDict)
                     = last_message'.data
      ]_vars

\* a malformed message was the last one consumed; both response tables and
\* an event bucket hold what came before it and both listeners still run
C18_Witness_AfterMalformed ==
    /\ last_message.kind \in Malformed
    /\ inbound = 4
    /\ _cdp_responses # EmptyDict
    /\ simple_responses # EmptyDict
    /\ _cdp_events # EmptyDict
    /\ listener = "running"
    /\ simple_ops[1].listener = "running"

\* the targets of type "page" among infos, in the order listed
PagesOf(infos) == SelectSeq(infos, LAMBDA t : t["type"] = "page")

\* the targets the endpoint listed in the response an operation consumed
ListedTo(op, outcomes) ==
    LET c == CHOOSE c \in outcomes : c.id = op.message_id
    IN  c.response["result"]["targetInfos"]

\* tabs has one entry for each page target listed, in the order listed,
\* each with the keys named and the target's values under them
RendersPages(tabs, infos, keys) ==
    LET pages == PagesOf(infos) IN
    /\ Len(tabs) = Len(pages)
    /\ \A n \in 1..Len(pages) :
          /\ DOMAIN tabs[n] = keys
          /\ tabs[n]["id"] = pages[n]["targetId"]
          /\ tabs[n]["title"] = pages[n]["title"]
          /\ tabs[n]["url"] = pages[n]["url"]
          /\ "type" \in keys => tabs[n]["type"] = pages[n]["type"]

\* C19 (as claimed): in both programs list_tabs returns one entry for each
\* listed target of type "page", in the order listed, none for any other
\* target, and each entry is {id, title, url}.
C19_TabsAsClaimed ==
    /\ \A o \in Ops :
          (ops[o].pc = "done" /\ "tabs" \in DOMAIN ops[o].ret) =>
              RendersPages(ops[o].ret["tabs"], ListedTo(ops[o], completed),
                           {"id", "title", "url"})
    /\ \A o \in Ops :
          (simple_ops[o].pc = "done" /\ "tabs" \in DOMAIN simple_ops[o].ret) =>
              RendersPages(simple_ops[o].ret["tabs"],
                           ListedTo(simple_ops[o], simple_completed),
                           {"id", "title", "url"})

\* a command for a page, which only a session can take: every command
\* outside the Target domain
SessionScoped(command) == command["method"][1] # "Target"

TopLevelSession(command) ==
    /\ DOMAIN command = {"sessionId", "id", "method", "params"}
    /\ "sessionId" \notin DOMAIN command["params"]

\* C20 (as claimed): in both programs every command addressed to a session
\* has the session's id as the field sessionId of its envelope, next to id,
\* method and params.
C20_SessionIdTopLevel ==
    /\ \A i \in 1..Len(wire) :
          SessionScoped(wire[i]) => TopLevelSession(wire[i])
    /\ \A i \in 1..Len(simple_wire) :
          SessionScoped(simple_wire[i]) => TopLevelSession(simple_wire[i])

\* C21 (as claimed): a freshly constructed M4MaxConfig has performance_cores
\* = 12, efficiency_cores = 4, total_cores = 16, memory_gb = 128 and
\* cache_limit_bytes = 20 * 1024^3, whatever the CPU count of the host.
C21_DefaultsWhateverTheHost ==
    config # NoConfig =>
        /\ config.performance_cores = 12
        /\ config.efficiency_cores = 4
        /\ config.total_cores = 16
        /\ config.memory_gb = 128
        /\ config.cache_limit_bytes = 20 * GiB

\* the response stored for the command op waits for
StoredFor(op) == op.phase = "poll" /\ op.message_id \in DOMAIN _cdp_responses

\* the command sent under id has been resolved
Consumed(id) == \E c \in completed : c.id = id

\* C22: a response the listener stored stays in the table until the caller
\* of its command takes it, and that caller does take it, also when the
\* response was stored before the caller first looked (no missed wakeup);
\* taking it removes it from the table, no other caller waits for it, and
\* no command is resolved twice (no double resolve).  A caller whose next
\* command would go beyond the last id of the run is not required to go on.
C22_NoMissedWakeupNoDoubleResolve ==
    /\ [](\A f \in delivered :
            \/ \E c \in completed : c.id = f["id"] /\ c.response = f
            \/ /\ f["id"] \in DOMAIN _cdp_responses
               /\ _cdp_responses[f["id"]] = f)
    /\ [](\A c1, c2 \in completed : c1.id = c2.id => c1 = c2)
    /\ [][\A o \in Ops :
            (ops[o].phase = "poll" /\ ops'[o] # ops[o]) =>
                /\ ops[o].message_id \in DOMAIN _cdp_responses
                /\ ops[o].message_id \notin DOMAIN _cdp_responses'
                /\ ~Consumed(ops[o].message_id)
                /\ \E c \in completed' :
                      /\ c.id = ops[o].message_id
                      /\ c.response = _cdp_responses[ops[o].message_id]
                /\ \A o2 \in Ops \ {o} : ops'[o2] = ops[o2]
         ]_vars
    /\ \A o \in Ops :
          StoredFor(ops[o]) ~> (~StoredFor(ops[o]) \/ _cdp_message_id >= MaxId)

\* a later command has been resolved while the response to an earlier
\* command of another caller sits in the table, stored before that caller
\* looked
C22_Witness_StoredBeforeLook ==
    \E o \in Ops, c \in completed :
        /\ StoredFor(ops[o])
        /\ ops[o].message_id < c.id

\* the ids of the commands whose callers are waiting
WaitingIds == {ops[o].message_id : o \in {x \in Ops : ops[x].phase = "poll"}}

SimpleWaitingIds ==
    {simple_ops[o].message_id : o \in {x \in Ops : simple_ops[x].phase = "poll"}}

\* C23 (as claimed): in both programs every entry of the response table
\* belongs to a command whose caller is waiting for it, whatever frames
\* arrived, and the table is empty once app_lifespan has closed the
\* connection.
C23_NoEntryOutlivesCommand ==
    /\ DOMAIN _cdp_responses \subseteq WaitingIds
    /\ DOMAIN simple_responses \subseteq SimpleWaitingIds
    /\ lifespan = "complete" => _cdp_responses = EmptyDict

\* the listener task has ended
ListenerEnded == listener \in {"cancelled", "finished", "failed"}

\* the listener stored or recorded a frame in this step
ListenerProcessed ==
    \/ delivered' # delivered
    \/ arrived' # arrived
    \/ _cdp_events' # _cdp_events
    \/ DOMAIN _cdp_responses' \ DOMAIN _cdp_responses # {}

\* C24: at shutdown the cancellation of the listener task is requested
\* first, the finally block then waits until the task has ended, and only
\* then does the close of the connection begin; from the request on the
\* listener stores no response and records no event.
C24_CancelWaitThenClose ==
    /\ [](lifespan \in {"closing", "complete"} =>
            (state.cdp_listener_task # "None" => ListenerEnded))
    /\ [][lifespan' = "closing" /\ lifespan # "closing" =>
            /\ teardown'.runs = 1
            /\ teardown'.awaited = Awaited(listener)
            /\ ListenerEnded /\ listener' = listener
         ]_vars
    /\ [][teardown'.closes # teardown.closes =>
            /\ lifespan = "closing"
            /\ teardown.runs = 1
            /\ teardown.awaited # "not awaited"
            /\ ListenerEnded /\ listener' = listener
         ]_vars
    /\ [][(lifespan \in {"awaiting", "closing", "complete"}) =>
            ~ListenerProcessed]_vars

\* shutdown is complete: the listener, which had stored a response, was
\* cancelled and the connection closed while a command was unanswered
C24_Witness_ShutDownWhileWaiting ==
    /\ lifespan = "complete"
    /\ teardown.closes = 1
    /\ listener = "cancelled"
    /\ transport = "closed"
    /\ delivered # {}
    /\ \E o \in Ops : ops[o].phase = "poll" /\ ~Answered(ops[o].message_id)

\* where the connection is in its life, read off app_lifespan's position
\* and the state it holds: a connect that failed leaves no connection
Phase(position, st) ==
    IF position = "startup" THEN "Connecting"
    ELSE IF st.cdp_ws = "None" THEN "Closed"
    ELSE IF position \in {"yielded", "abandoned"} THEN "Connected"
    ELSE IF position \in {"awaiting", "closing"} THEN "Draining"
    ELSE "Closed"

Forward ==
    {<<"Connecting", "Connected">>, <<"Connected", "Draining">>,
     <<"Draining", "Closed">>, <<"Connecting", "Closed">>}

\* C25: the connection only moves Connecting -> Connected -> Draining ->
\* Closed, or Connecting -> Closed when the connect fails, and never leaves
\* Closed; a listener task is started once, in the step that enters
\* Connected, and at no other time.
C25_LifecycleForwardOnly ==
    /\ [][\/ Phase(lifespan', state') = Phase(lifespan, state)
          \/ <<Phase(lifespan, state), Phase(lifespan', state')>> \in Forward
         ]_vars
    /\ [][(listener' = "running" /\ listener # "running") <=>
            (Phase(lifespan, state) = "Connecting"
                /\ Phase(lifespan', state') = "Connected")
         ]_vars
    /\ [](Phase(lifespan, state) \in {"Connected", "Draining"} =>
            listener # "none")
    /\ [](Phase(lifespan, state) = "Connecting" => listener = "none")

\* the connection has gone through every phase: commands were sent on it,
\* its listener was cancelled and it was closed
C25_Witness_FullLife ==
    /\ Phase(lifespan, state) = "Closed"
    /\ state.cdp_ws # "None"
    /\ wire # <<>>
    /\ listener = "cancelled"
    /\ teardown.runs = 1
    /\ teardown.closes = 1

\* C26: when the finally block cancels a listener that is still in its
\* loop, the loop ends as cancelled whatever frame it handled last, the
\* await of the task raises CancelledError to the finally block, which
\* goes on to the close; a listener whose cancellation was requested
\* handles no further frame, and the finally block does not wait forever
\* for it.
C26_CancellationNotSwallowed ==
    /\ [][(lifespan = "awaiting" /\ listener' # listener) =>
            listener' = "cancelled"
         ]_vars
    /\ [][(CancelRequested \/ listener = "cancelled") =>
            /\ ~ListenerProcessed
            /\ listener = "cancelled" => listener' = "cancelled"
         ]_vars
    /\ [][teardown'.awaited # teardown.awaited =>
            /\ teardown'.awaited = Awaited(listener)
            /\ ListenerEnded
            /\ lifespan' = "closing"
         ]_vars
    /\ [](teardown.awaited = "CancelledError" => listener = "cancelled")
    /\ []((lifespan \in {"closing", "complete"} /\ listener = "cancelled") =>
            teardown.awaited = "CancelledError")
    /\ (lifespan = "awaiting") ~> (lifespan = "complete")

\* the listener was cancelled right after its handler had caught the
\* exception of a malformed frame, and the shutdown went on to its end
C26_Witness_CancelledAfterBadFrame ==
    /\ listener = "cancelled"
    /\ teardown.awaited = "CancelledError"
    /\ last_message.kind \in Malformed
    /\ inbound > 1
    /\ lifespan = "complete"

AttachMethod == Method("Target", "attachToTarget")

\* frame is the response to an attach command that was sent, and opens
\* the session sid
AttachResponse(frame, sid, sent) ==
    /\ \E j \in 1..Len(sent) :
          sent[j]["method"] = AttachMethod /\ sent[j]["id"] = frame["id"]
    /\ "result" \in DOMAIN frame
    /\ "sessionId" \in DOMAIN frame["result"]
    /\ frame["result"]["sessionId"] = sid

\* command is the detach of the session sid
DetachOf(command, sid) ==
    /\ command["method"] = DetachMethod
    /\ command["params"] = ("sessionId" :> sid)

\* C27: when a command tagged with a session id is written, the listener
\* has already received the response to the attach that opened that
\* session, and no detach of that session was written before it.
C27_SessionOpenWhenUsed ==
    [][\A i \in (Len(wire) + 1)..Len(wire') :
          "sessionId" \in DOMAIN wire'[i] =>
              /\ \E f \in delivered : AttachResponse(f, wire'[i]["sessionId"], wire)
              /\ \A j \in 1..(i - 1) : ~DetachOf(wire'[j], wire'[i]["sessionId"])
      ]_vars

\* an operation has used its session and detached from it: the detach is
\* the last command written and the session-tagged commands precede it
C27_Witness_UsedThenDetached ==
    /\ Len(wire) >= 3
    /\ \E sid \in {wire[2]["sessionId"]} :
          /\ DetachOf(wire[Len(wire)], sid)
          /\ \A i \in 2..(Len(wire) - 1) :
                "sessionId" \in DOMAIN wire[i] /\ wire[i]["sessionId"] = sid
    /\ ops[1].pc = "done"

\* the session ids the endpoint returned for the attach commands of
\* operation o, which are the ones naming o's target
OwnSessions(o) ==
    {f["result"]["sessionId"] :
        f \in {g \in delivered :
                 /\ "result" \in DOMAIN g
                 /\ "sessionId" \in DOMAIN g["result"]
                 /\ \E j \in 1..Len(wire) :
                       /\ wire[j]["id"] = g["id"]
                       /\ wire[j]["method"] = AttachMethod
                       /\ wire[j]["params"]["targetId"] = ops[o].target}}

\* C28: with several sessions attached on one connection, every command
\* written through a session's sender carries the session id that the
\* attach of the operation writing it returned, which is the id of no
\* other operation's session, in every interleaving.
C28_TaggedWithOwnSession ==
    [][\A i \in (Len(wire) + 1)..Len(wire') :
          "sessionId" \in DOMAIN wire'[i] =>
              \E o \in Ops :
                  /\ ops'[o].message_id = wire'[i]["id"]
                  /\ wire'[i]["sessionId"] \in OwnSessions(o)
                  /\ \A o2 \in Ops \ {o} :
                        wire'[i]["sessionId"] \notin OwnSessions(o2)
      ]_vars

\* two operations attached one after the other and then used their
\* sessions in the opposite order
C28_Witness_Interleaved ==
    /\ Len(wire) >= 4
    /\ wire[1]["method"] = AttachMethod
    /\ wire[2]["method"] = AttachMethod
    /\ "sessionId" \in DOMAIN wire[3]
    /\ "sessionId" \in DOMAIN wire[4]
    /\ wire[3]["sessionId"] = <<"session", 2>>
    /\ wire[4]["sessionId"] = <<"session", 1>>

\* the frame consumed in this step is an event frame: an object with a
\* method and no id
EventConsumed ==
    /\ inbound' = inbound + 1
    /\ last_message'.kind = "object"
    /\ "id" \notin DOMAIN last_message'.data
    /\ "method" \in DOMAIN last_message'.data

\* C29: an event frame becomes the last record of the bucket named by the
\* part of its method name before the first ".", the records that bucket
\* keeps from before stay in their order, and every other bucket is the
\* same list as before, also when the event's own bucket evicts.
C29_OnlyOwnBucketChanges ==
    [][EventConsumed =>
          LET data   == last_message'.data
              own    == BeforeFirstDot(data["method"])
              before == IF own \in DOMAIN _cdp_events THEN _cdp_events[own]
                        ELSE <<>>
              after  == _cdp_events'[own]
          IN  /\ DOMAIN _cdp_events' = DOMAIN _cdp_events \cup {own}
              /\ after[Len(after)] = data
              /\ Len(after) <= Len(before) + 1
              /\ \A n \in 1..(Len(after) - 1) :
                    after[n] = before[Len(before) - (Len(after) - 1) + n]
              /\ \A c \in DOMAIN _cdp_events \ {own} :
                    _cdp_events'[c] = _cdp_events[c]
      ]_vars

\* the Network bucket has just evicted its oldest record while the Console
\* bucket holds a record
C29_Witness_EvictionBesideOther ==
    /\ last_message.kind = "object"
    /\ "method" \in DOMAIN last_message.data
    /\ "id" \notin DOMAIN last_message.data
    /\ BeforeFirstDot(last_message.data["method"]) = "Network"
    /\ Len(ArrivedIn("Network")) = 1001
    /\ Len(_cdp_events["Network"]) = 1000
    /\ "Console" \in DOMAIN _cdp_events
    /\ Len(_cdp_events["Console"]) = 1

\* C30: the event buckets change only in a step in which the listener
\* consumes a frame, never in a step that reads get_console_logs or
\* get_network_requests, whether the view returns or raises; a read changes
\* nothing in the response table; and a view read again with no frame
\* consumed since returns what it returned before.
C30_ViewsOnlyRead ==
    [][ /\ (_cdp_events' # _cdp_events) =>
              (inbound' = inbound + 1 /\ reply' = reply)
        /\ (inbound' = inbound) =>
              (_cdp_responses' = _cdp_responses /\ arrived' = arrived)
        /\ (reply.op # "none" /\ reply'.op = reply.op
              /\ reply.seen = Len(arrived) /\ inbound' = inbound) =>
                 reply'.out = reply.out
      ]_vars

\* the network view was read, with nothing consumed since, while the
\* response table and both buckets held entries
C30_Witness_ReadOverFullTables ==
    /\ reply.op = "get_network_requests"
    /\ reply.seen = Len(arrived)
    /\ reply.out.tag = "return"
    /\ Len(reply.out.value["requests"]) = 1
    /\ _cdp_responses # EmptyDict
    /\ {"Console", "Network"} \subseteq DOMAIN _cdp_events

\* C31 (as claimed): in simple_debug.py an operation that has returned has
\* closed the connection it opened, whether it returns its payload or an
\* error.
C31_SimpleClosesConnection ==
    \A o \in Ops : simple_ops[o].pc = "done" => simple_ops[o].ws # "open"

\* C32 (as claimed): in simple_debug.py, when send_cdp_command gives up
\* and raises TimeoutError, the response table holds no response to its
\* command: a response stored before that moment, also one stored during
\* the last sleep, was returned to the caller.
C32_StoredBeforeTimeoutReturned ==
    [][\A o \in Ops :
          (/\ simple_ops[o].phase = "poll"
           /\ simple_ops'[o].phase # "poll"
           /\ simple_completed' = simple_completed) =>
              simple_ops[o].message_id \notin DOMAIN simple_responses
      ]_vars

\* C33: in simple_debug.py, with concurrent operations sharing the id
\* counter and the response table, the response a command returns with
\* came in on the connection of the operation that sent the command, under
\* that command's id, and answers no command written to another connection.
C33_NoCrossConnectionResponse ==
    [][\A o \in Ops : \A c \in simple_completed' \ simple_completed :
          simple_ops'[o] # simple_ops[o] =>
              /\ c.id = simple_ops[o].message_id
              /\ c.response["id"] = c.id
              /\ [conn |-> o, frame |-> c.response] \in simple_trace.stored
              /\ \A i \in 1..Len(simple_wire) :
                    simple_wire[i]["id"] = c.id => simple_trace.sent[i] = o
      ]_vars

\* two operations have commands in flight on their own connections, and
\* the one that sent later has already taken a response
C33_Witness_TwoConnections ==
    \E o1, o2 \in Ops :
        /\ o1 # o2
        /\ simple_ops[o1].phase = "poll" /\ simple_ops[o1].ws = "open"
        /\ simple_ops[o2].ws = "open"
        /\ simple_ops[o1].message_id = 1
        /\ simple_ops[o1].message_id \notin DOMAIN simple_responses
        /\ \E c \in simple_completed : c.id = 2
        /\ \E r \in simple_trace.stored : r.conn = o2

\* C34 (as claimed): app_lifespan yields once per run, never a second
\* time, also when the application body raises an error of the except
\* clause's tuple.
C34_YieldsExactlyOnce == teardown.yields <= 1

\* the Network events still in the bucket when the view was read: the most
\* recent 1000 of those recorded
RetainedNetwork ==
    LET n    == Len(SeenNetwork)
        kept == IF n < 1000 THEN n ELSE 1000
    IN  SubSeq(SeenNetwork, n - kept + 1, n)

RecordedIds(requests) == {requests[i]["requestId"] : i \in 1..Len(requests)}

\* C35: the network view is computed from the retained window only: its
\* records are those of the requests whose request-sent event is among the
\* retained events, so a request whose request-sent event was evicted has
\* no record, also when its response-received event is still retained.
C35_ViewOfRetainedWindow ==
    (reply.op = "get_network_requests" /\ reply.out.tag = "return") =>
        \A id \in {"R1", "R2", "R3"} :
            (id \in RecordedIds(reply.out.value["requests"]))
                = (LastSent(RetainedNetwork, id) > 0)

\* the view was read when the sending of R1 had been evicted and an answer
\* to R1 was still retained: R1 has no record
C35_Witness_RequestEvicted ==
    /\ reply.op = "get_network_requests"
    /\ reply.out.tag = "return"
    /\ LastSent(SeenNetwork, "R1") > 0
    /\ LastSent(RetainedNetwork, "R1") = 0
    /\ \E k \in 1..Len(RetainedNetwork) :
          NamesRequest(RetainedNetwork[k], "responseReceived", "R1")
    /\ "R1" \notin RecordedIds(reply.out.value["requests"])

\* the Target.getTargets responses an operation was handed
TargetsHanded ==
    {c \in completed :
        /\ CommandOf(c.id)["method"] = Method("Target", "getTargets")
        /\ c.out.tag = "return"}

\* whether the session of the attach to target was opened and the domain
\* enabled in it: both commands were written and answered with a result
EnabledFor(target) ==
    \E a, e \in completed :
        /\ CommandOf(a.id)["method"] = AttachMethod
        /\ CommandOf(a.id)["params"]["targetId"] = target
        /\ a.out.tag = "return"
        /\ HasKey(a.out.value, "sessionId")
        /\ CommandOf(e.id)["method"][3] = "enable"
        /\ HasKey(CommandOf(e.id), "sessionId")
        /\ CommandOf(e.id)["sessionId"] = a.out.value["sessionId"]
        /\ e.out.tag = "return"

\* C36: enable_console_logs and enable_network_monitoring return one entry
\* per page target of the list they were handed, in the order of the list;
\* the entry of a target whose attach or enable failed is an error entry,
\* and every other target still gets its own entry: a status entry exactly
\* when its session was opened, the domain enabled and its info looked up.
C36_OneEntryPerPageTarget ==
    \A o \in Ops : \A c \in TargetsHanded :
        LET infos == Get(c.out.value, "targetInfos", <<>>) IN
        (/\ ops[o].kind \in EnableKinds
         /\ ops[o].pc = "done"
         /\ \A n \in 1..Len(infos) : HasKey(infos[n], "type")) =>
            LET pages == PagesOf(infos)
                tabs  == ops[o].ret["tabs"]
            IN  /\ DOMAIN ops[o].ret = {"status", "tabs"}
                /\ ops[o].ret["status"] = "success"
                /\ Len(tabs) = Len(pages)
                /\ \A n \in 1..Len(pages) :
                      /\ tabs[n]["targetId"] = pages[n]["targetId"]
                      /\ ~EnabledFor(pages[n]["targetId"]) => HasKey(tabs[n], "error")
                      /\ HasKey(tabs[n], "error") =>
                            \/ ~EnabledFor(pages[n]["targetId"])
                            \/ \E k \in 1..Len(infos) : ~HasKey(infos[k], "targetId")
                      /\ HasKey(tabs[n], "error") = ~HasKey(tabs[n], "status")

\* the tool returned for two page targets: the attach to the first was
\* refused, the second was enabled
C36_Witness_FailedThenEnabled ==
    \E o \in Ops :
        /\ ops[o].kind \in EnableKinds
        /\ ops[o].pc = "done"
        /\ HasKey(ops[o].ret, "tabs")
        /\ Len(ops[o].ret["tabs"]) = 2
        /\ HasKey(ops[o].ret["tabs"][1], "error")
        /\ ~EnabledFor(ops[o].ret["tabs"][1]["targetId"])
        /\ HasKey(ops[o].ret["tabs"][2], "status")
        /\ EnabledFor(ops[o].ret["tabs"][2]["targetId"])

\* the places in wire of the detach commands for the session sid
Detaches(sid) == {k \in 1..Len(wire) : DetachOf(wire[k], sid)}

ResolvedIds == {c.id : c \in completed}

\* no command failed: every command written was answered, none with an
\* error, the connection is open, and the attach and the getDocument
\* results hold what the body reads from them
NoCommandFailed ==
    /\ transport = "open"
    /\ \A i \in 1..Len(wire) : wire[i]["id"] \in ResolvedIds
    /\ \A c \in completed :
          /\ c.out.tag = "return"
          /\ CommandOf(c.id)["method"] = AttachMethod =>
                HasKey(c.out.value, "sessionId")
          /\ CommandOf(c.id)["method"] = Method("DOM", "getDocument") =>
                /\ HasKey(c.out.value, "root")
                /\ HasKey(c.out.value["root"], "nodeId")

\* C37: when get_tab_content or inspect_element has returned and no command
\* failed, the element-not-found return included, exactly one detach was
\* written for the session the operation attached; and a detach is written
\* only when every command before it has resolved, and no command of its
\* session follows it.
C37_ExactlyOneDetachAtEnd ==
    /\ \A o \in Ops :
          (/\ ops[o].pc = "done"
           /\ ops[o].kind \in {"get_tab_content", "inspect_element"}
           /\ NoCommandFailed) =>
              /\ \E f \in delivered : AttachResponse(f, ops[o].session_id, wire)
              /\ Cardinality(Detaches(ops[o].session_id)) = 1
    /\ \A k \in 1..Len(wire) :
          wire[k]["method"] = DetachMethod =>
              /\ \A j \in 1..(k - 1) : wire[j]["id"] \in ResolvedIds
              /\ \A j \in (k + 1)..Len(wire) :
                    /\ ~DetachOf(wire[j], wire[k]["params"]["sessionId"])
                    /\ HasKey(wire[j], "sessionId") =>
                          wire[j]["sessionId"] # wire[k]["params"]["sessionId"]

\* inspect_element found no element and returned: the querySelector was
\* answered without a node id, no command failed, and one detach was written
C37_Witness_NotFoundDetached ==
    /\ ops[1].pc = "done"
    /\ ops[1].kind = "inspect_element"
    /\ NoCommandFailed
    /\ ops[1].ret = ErrorResult(<<"Element not found with selector: ", ops[1].selector>>)
    /\ Cardinality(Detaches(ops[1].session_id)) = 1
    /\ \A i \in 1..Len(wire) : wire[i]["method"] # Method("DOM", "describeNode")

\* C38: on a host with n >= 1 CPUs a constructed M4MaxConfig has at least
\* one performance core and at least one efficiency core, and for n >= 2
\* the two counts add up to n.
C38_CoresSplitTheHost ==
    config # NoConfig =>
        /\ config.performance_cores >= 1
        /\ config.efficiency_cores >= 1
        /\ cpu_count >= 2 =>
              config.performance_cores + config.efficiency_cores = cpu_count

\* constructed on a host with one CPU, where both floors act: one core of
\* each kind
C38_Witness_SingleCpu ==
    /\ cpu_count = 1
    /\ config # NoConfig
    /\ config.performance_cores = 1
    /\ config.efficiency_cores = 1

=============================================================================
